---- MODULE Spec2Model ----
(***************************************************************************)
(* Model of the fantasyfootballfix session-authentication-and-retrieval    *)
(* pipeline: FFFStatsClient (src/functions/statistic.py), FFFAuth and      *)
(* get_fff_session (src/functions/auth.py), the record formatting of       *)
(* src/functions/format.py and FFFPlayersParser (src/players.py).          *)
(***************************************************************************)
EXTENDS Integers, Sequences, FiniteSets, TLC

(***************************************************************************)
(* Bounds of the model                                                     *)
(***************************************************************************)
\* gameweek arguments are drawn from MIN_GW-GwMargin..MIN_GW and
\* MAX_GW..MAX_GW+GwMargin
GwMargin == 1
\* number of calls made on one FFFStatsClient
MaxStatsCalls == 1
\* largest number of items in a JSON list answered by the server
MaxItems == 2
\* number of calls (authenticate or _perform_login) made on one FFFAuth
MaxAuthCalls == 2
\* number of get_fff_session calls
MaxSessionCalls == 2
\* number of times the clock advances
MaxTicks == 2
\* the clock reading at the start
Epoch0 == 1750000000
\* largest number of raw records in a batch drawn from the pool
MaxBatch == 2
\* largest number of raw team records handed to teamsInfo
MaxTeams == 2

(***************************************************************************)
(* Program constants                                                       *)
(***************************************************************************)
MIN_GW == 1
MAX_GW == 38
valid_venues == {"home/away", "home", "away"}

(***************************************************************************)
(* Python values: an int, a float, a str or None.  The tag t is always     *)
(* inspected before the payload, as the interpreter does.                  *)
(***************************************************************************)
IntV(i) == [t |-> "int", n |-> i, s |-> ""]
StrV(x) == [t |-> "str", n |-> 0, s |-> x]
NoneV == [t |-> "none", n |-> 0, s |-> ""]

\* Python truthiness of a value
Truthy(v) ==
    CASE v.t = "int" -> v.n # 0
      [] v.t = "float" -> v.n # 0
      [] v.t = "str" -> v.s # ""
      [] OTHER -> FALSE

GwInputs ==
    {IntV(i) : i \in (MIN_GW - GwMargin)..MIN_GW}
        \cup {IntV(i) : i \in MAX_GW..(MAX_GW + GwMargin)}
        \cup {NoneV, StrV("5")}
VenueInputs == {StrV(x) : x \in valid_venues \cup {"Home/away"}} \cup {NoneV}
SeasonInputs == {StrV("2024"), NoneV}

\* what Parser.parser_result() hands back: a JSON list of len items, another
\* JSON value, nothing (retries exhausted), or an exception
ParserResults ==
    {[kind |-> "list", len |-> k] : k \in 0..MaxItems}
        \cup {[kind |-> k, len |-> 0] : k \in {"dict", "none", "raise"}}

VARIABLES
    stats,          \* FFFStatsClient.stats
    lastCall,       \* arguments and outcome of the latest client call
    statsCalls,     \* number of client calls made so far
    net,            \* requests handed to the network by the client
    pace,           \* the courtesy delays: how many there were, whether the
                    \* latest thing the client did was to sleep, and how many
                    \* requests went out with no sleep right before them
    falsyMissing    \* whether validate_required_fields also reports falsy values

statsVars == <<stats, lastCall, statsCalls, net, pace, falsyMissing>>

(***************************************************************************)
(* FFFStatsClient                                                          *)
(***************************************************************************)
NoCall ==
    [op |-> "none", min_gw |-> NoneV, max_gw |-> NoneV, venue |-> NoneV,
     season |-> NoneV, outcome |-> "none", validated |-> FALSE,
     res |-> [kind |-> "none", len |-> 0]]

\* common_modules.validate_required_fields: the names of the required
\* parameters that are missing
validate_required_fields(params, strict) ==
    {k \in DOMAIN params :
        \/ params[k].t = "none"
        \/ strict /\ ~Truthy(params[k])}

\* the pre-flight checks of get_players_stats / get_teams_stats:
\* "reject" (return None), "raise" (TypeError of a comparison) or "pass"
PreflightLoose(min_gw, max_gw, venue, season, strict) ==
    LET required_params ==
            [min_gw |-> min_gw, max_gw |-> max_gw, venue |-> venue, season |-> season]
    IN  IF validate_required_fields(required_params, strict) # {} THEN "reject"
        ELSE IF min_gw.t # "int" \/ max_gw.t # "int" THEN "raise"
        ELSE IF ~(MIN_GW <= min_gw.n /\ min_gw.n <= MAX_GW) THEN "reject"
        ELSE IF min_gw.n > max_gw.n THEN "reject"
        ELSE IF ~(venue.t = "str" /\ venue.s \in valid_venues) THEN "reject"
        ELSE "pass"

Preflight(min_gw, max_gw, venue, season, strict) ==
    LET required_params ==
            [min_gw |-> min_gw, max_gw |-> max_gw, venue |-> venue, season |-> season]
    IN  IF validate_required_fields(required_params, strict) # {} THEN "reject"
        ELSE IF min_gw.t # "int" \/ max_gw.t # "int" THEN "raise"
        ELSE IF \/ ~(MIN_GW <= min_gw.n /\ min_gw.n <= MAX_GW)
                \/ ~(MIN_GW <= max_gw.n /\ max_gw.n <= MAX_GW) THEN "reject"
        ELSE IF min_gw.n > max_gw.n THEN "reject"
        ELSE IF ~(venue.t = "str" /\ venue.s \in valid_venues) THEN "reject"
        ELSE "pass"

\* _make_request accepting every JSON list, the empty one included
make_request_any_list(st, res) ==
    LET made == [st EXCEPT !.requests_made = @ + 1]
    IN  IF res.kind = "list"
        THEN [stats |-> [made EXCEPT !.successful_requests = @ + 1],
              outcome |-> "list", len |-> res.len]
        ELSE [stats |-> [made EXCEPT !.failed_requests = @ + 1],
              outcome |-> "absent", len |-> 0]

\* FFFStatsClient._make_request: the counters after the request and what is
\* returned ("list" for the data, "absent" for None)
make_request(st, res) ==
    LET made == [st EXCEPT !.requests_made = @ + 1]
    IN  IF res.kind = "list" /\ res.len > 0
        THEN [stats |-> [made EXCEPT !.successful_requests = @ + 1],
              outcome |-> "list", len |-> res.len]
        ELSE [stats |-> [made EXCEPT !.failed_requests = @ + 1],
              outcome |-> "absent", len |-> 0]

\* get_stats_summary: the counters and the success rate, in hundredths of a
\* percent (round(..., 2))
get_stats_summary(st) ==
    LET success_rate ==
            IF st.requests_made > 0
            THEN (st.successful_requests * 20000 + st.requests_made)
                    \div (2 * st.requests_made)
            ELSE 0
    IN  [stats |-> st, success_rate_percent |-> success_rate]

NoPace == [delays |-> 0, slept |-> FALSE, bare |-> 0]
\* time.sleep(1)
sleep(p) == [p EXCEPT !.delays = @ + 1, !.slept = TRUE]
\* parser.parser_result(): the request goes out
parser_result(p) ==
    [p EXCEPT !.bare = IF p.slept THEN @ ELSE @ + 1, !.slept = FALSE]

\* a client that sleeps after the request instead of before it
paced_request_first(p) == sleep(parser_result(p))

\* _make_request, lines 66-70: the delay, then the request
paced(p) == parser_result(sleep(p))

\* one call of get_players_stats (counter = "total_players_fetched") or
\* get_teams_stats (counter = "total_teams_fetched")
StatsCall(op, counter, min_gw, max_gw, venue, season) ==
    LET pre == Preflight(min_gw, max_gw, venue, season, falsyMissing)
        call == [op |-> op, min_gw |-> min_gw, max_gw |-> max_gw,
                 venue |-> venue, season |-> season,
                 outcome |-> "absent", validated |-> FALSE,
                 res |-> [kind |-> "none", len |-> 0]]
    IN  /\ statsCalls < MaxStatsCalls
        /\ statsCalls' = statsCalls + 1
        /\ IF pre = "pass"
           THEN \E res \in ParserResults :
                    LET r == make_request(stats, res)
                    IN  /\ net' = net + 1
                        /\ pace' = paced(pace)
                        /\ stats' = [r.stats EXCEPT ![counter] = @ + r.len]
                        /\ lastCall' = [call EXCEPT !.outcome = r.outcome,
                                                    !.validated = TRUE,
                                                    !.res = res]
           ELSE /\ net' = net
                /\ pace' = pace
                /\ stats' = stats
                /\ lastCall' = [call EXCEPT !.outcome =
                                    IF pre = "raise" THEN "raise" ELSE "absent"]
        /\ UNCHANGED falsyMissing

get_players_stats ==
    \E min_gw \in GwInputs, max_gw \in GwInputs, venue \in VenueInputs,
       season \in SeasonInputs :
        StatsCall("players", "total_players_fetched", min_gw, max_gw, venue, season)

get_teams_stats ==
    \E min_gw \in GwInputs, max_gw \in GwInputs, venue \in VenueInputs,
       season \in SeasonInputs :
        StatsCall("teams", "total_teams_fetched", min_gw, max_gw, venue, season)

(***************************************************************************)
(* FFFAuth: one instance, its requests.Session cookie jar and the site     *)
(***************************************************************************)
PyNone == "<None>"          \* Python None in a slot that otherwise holds a str
Absent == "<absent>"        \* no cookie of that name in the jar
Pending == "<pending>"      \* the call has not returned yet
Raised == "<raised>"        \* the call ended with an exception

Falsy(x) == x \in {PyNone, ""}

\* values a cookie named 'sessionid' can carry (http.cookiejar allows None)
CookieValues == {PyNone, "", "sessA"}
\* effect of a response on the jar: no Set-Cookie for sessionid, or a value
SetCookie == {"keep"} \cup CookieValues
\* the same for the responses to a GET
GetSetCookie == {"keep", "sessA"}

\* responses to GET /signin/
CsrfResponses ==
    {[kind |-> "error", token |-> PyNone, cookie |-> "keep"]}
        \cup {[kind |-> "badstatus", token |-> PyNone, cookie |-> c] : c \in GetSetCookie}
        \cup {[kind |-> "page", token |-> t, cookie |-> c] :
                t \in {PyNone, "", "csrfA"}, c \in GetSetCookie}
\* responses to POST /signin/
LoginContents ==
    {[kind |-> "error", status |-> 0, invalid |-> FALSE, redirected |-> FALSE,
      marker |-> FALSE]}
        \cup {[kind |-> "resp", status |-> st, invalid |-> i, redirected |-> r,
               marker |-> m] :
                st \in {200, 403}, i \in BOOLEAN, r \in BOOLEAN, m \in BOOLEAN}
\* responses to the test API request
ProbeContents ==
    {[kind |-> "error", status |-> 0, body |-> "none"]}
        \cup {[kind |-> "resp", status |-> st, body |-> b] :
                st \in {200, 401},
                b \in {"list", "empty_list", "dict", "malformed"}}
NoLogin == [kind |-> "none", status |-> 0, invalid |-> FALSE, redirected |-> FALSE,
            marker |-> FALSE]
NoProbe == [kind |-> "none", status |-> 0, body |-> "none"]
NoCsrf == [kind |-> "none", token |-> PyNone, cookie |-> "keep"]

VARIABLES
    auth,           \* the FFFAuth instance: csrf_token, session_id, cookie jar
    pc,             \* position inside authenticate()
    log,            \* requests and extractions of the current call, in order
    passed,         \* stages of the current authenticate() that returned True
    loginResp,      \* the login response of the current call
    fallbackProbe,  \* the response to the probe issued by _perform_login
    finalProbe,     \* the response to the probe issued by authenticate step 4
    jarAtExtract,   \* the sessionid cookie in the jar when step 3 ran
    ret,            \* the call in progress or last finished, and its result
    authCalls,      \* calls made on the instance
    csrfObtained    \* _get_csrf_token has succeeded on this instance

authVars == <<auth, pc, log, passed, loginResp, fallbackProbe, finalProbe,
              jarAtExtract, ret, authCalls, csrfObtained>>

\* FFFAuth.__init__
NewAuth == [csrf_token |-> PyNone, session_id |-> PyNone, jar |-> Absent]

\* the session stores the cookies of every response it receives
StoreCookie(a, c) == IF c = "keep" THEN a ELSE [a EXCEPT !.jar = c]

Event(ev, a) == [ev |-> ev, csrf |-> a.csrf_token]
\* the kinds of the events of a log
Evs(l) == [i \in DOMAIN l |-> l[i].ev]

\* FFFAuth._get_csrf_token
get_csrf_token(a, cr) ==
    LET sent == <<Event("csrf_get", a)>>
    IN  IF cr.kind = "error"
        THEN [a |-> a, ok |-> FALSE, log |-> sent]
        ELSE IF cr.kind = "badstatus"
        THEN [a |-> StoreCookie(a, cr.cookie), ok |-> FALSE, log |-> sent]
        ELSE IF ~Falsy(cr.token)
        THEN [a |-> [StoreCookie(a, cr.cookie) EXCEPT !.csrf_token = cr.token],
              ok |-> TRUE, log |-> sent]
        ELSE [a |-> StoreCookie(a, cr.cookie), ok |-> FALSE, log |-> sent]

\* the acceptance test of FFFAuth._verify_login
ProbeAcceptsAnyList(pr) ==
    pr.kind = "resp" /\ pr.status = 200 /\ pr.body \in {"list", "empty_list"}

ProbeAccepts(pr) ==
    pr.kind = "resp" /\ pr.status = 200 /\ pr.body = "list"

\* FFFAuth._verify_login
verify_login(a, pr, c) ==
    [a |-> IF pr.kind = "error" THEN a ELSE StoreCookie(a, c),
     ok |-> ProbeAccepts(pr),
     log |-> <<Event("probe", a)>>]

\* the decision of FFFAuth._perform_login on the login response:
\* "fail", "success" or "probe" (the result is that of _verify_login)
LoginDecisionRedirectFirst(lr) ==
    IF lr.kind = "error" THEN "fail"
    ELSE IF lr.status = 200
    THEN IF lr.redirected THEN "success"
         ELSE IF lr.invalid THEN "fail"
         ELSE IF lr.marker THEN "success"
         ELSE "probe"
    ELSE "fail"

LoginDecision(lr) ==
    IF lr.kind = "error" THEN "fail"
    ELSE IF lr.status = 200
    THEN IF lr.invalid THEN "fail"
         ELSE IF lr.redirected THEN "success"
         ELSE IF lr.marker THEN "success"
         ELSE "probe"
    ELSE "fail"

\* whether _perform_login fetches a CSRF token first
NeedsCsrfNever(a) == FALSE

\* a _perform_login that fetches the CSRF page whether it has a token or not
NeedsCsrfAlways(a) == TRUE

NeedsCsrf(a) == Falsy(a.csrf_token)

\* FFFAuth._perform_login; lc is the Set-Cookie of the login response, pc2
\* that of the probe
perform_login(a, cr, lr, lc, pr, pc2) ==
    LET g == IF NeedsCsrf(a) THEN get_csrf_token(a, cr)
             ELSE [a |-> a, ok |-> TRUE, log |-> <<>>]
        posted == g.log \o <<Event("login_post", g.a)>>
        a1 == IF lr.kind = "error" THEN g.a ELSE StoreCookie(g.a, lc)
        d == LoginDecision(lr)
        v == verify_login(a1, pr, pc2)
    IN  IF ~g.ok THEN [a |-> g.a, ok |-> FALSE, log |-> g.log, posted |-> FALSE,
                       probed |-> FALSE]
        ELSE IF d = "probe"
        THEN [a |-> v.a, ok |-> v.ok, log |-> posted \o v.log, posted |-> TRUE,
              probed |-> TRUE]
        ELSE [a |-> a1, ok |-> (d = "success"), log |-> posted, posted |-> TRUE,
              probed |-> FALSE]

\* FFFAuth._extract_session_id
extract_session_id_lenient(a) ==
    [a |-> [a EXCEPT !.session_id = a.jar], ok |-> TRUE,
     log |-> <<Event("extract", a)>>]

extract_session_id(a) ==
    IF a.jar # Absent
    THEN [a |-> [a EXCEPT !.session_id = a.jar], ok |-> TRUE,
          log |-> <<Event("extract", a)>>]
    ELSE [a |-> a, ok |-> FALSE, log |-> <<Event("extract", a)>>]

\* authenticate(): where control goes after a stage returned ok
NextStageKeepGoing(stage, ok) ==
    CASE stage = "csrf" -> "login"
      [] stage = "login" -> "extract"
      [] stage = "extract" -> "verify"
      [] OTHER -> "return"

NextStage(stage, ok) ==
    IF ~ok THEN "idle"
    ELSE CASE stage = "csrf" -> "login"
           [] stage = "login" -> "extract"
           [] stage = "extract" -> "verify"
           [] OTHER -> "return"

\* authenticate(), lines 212-213: the log line slices session_id, then the
\* session id is returned
authenticate_return(a) ==
    IF a.session_id = PyNone THEN Raised ELSE a.session_id

\* FFFAuth.authenticate run from its first line to its return
authenticate(a, cr, lr, lc, pr, pc2, fr, fc) ==
    LET s1 == get_csrf_token(a, cr)
        s2 == perform_login(s1.a, NoCsrf, lr, lc, pr, pc2)
        s3 == extract_session_id(s2.a)
        s4 == verify_login(s3.a, fr, fc)
    IN  IF NextStage("csrf", s1.ok) = "idle"
        THEN [a |-> s1.a, val |-> PyNone, log |-> s1.log]
        ELSE IF NextStage("login", s2.ok) = "idle"
        THEN [a |-> s2.a, val |-> PyNone, log |-> s1.log \o s2.log]
        ELSE IF NextStage("extract", s3.ok) = "idle"
        THEN [a |-> s3.a, val |-> PyNone, log |-> s1.log \o s2.log \o s3.log]
        ELSE [a |-> s4.a,
              val |-> IF NextStage("verify", s4.ok) = "return"
                      THEN authenticate_return(s4.a) ELSE PyNone,
              log |-> s1.log \o s2.log \o s3.log \o s4.log]

\* the sets the responses of a _perform_login are drawn from: only the
\* requests that are sent are answered
CsrfFor(a) == IF NeedsCsrf(a) THEN CsrfResponses ELSE {NoCsrf}
LoginFor(a, cr) ==
    IF get_csrf_token(a, cr).ok \/ ~NeedsCsrf(a) THEN LoginContents ELSE {NoLogin}
LoginCookieFor(lr) == IF lr.kind = "resp" THEN SetCookie ELSE {"keep"}
ProbeFor(lr) ==
    IF lr.kind # "none" /\ LoginDecision(lr) = "probe" THEN ProbeContents ELSE {NoProbe}
ProbeCookieFor(pr) == IF pr.kind = "resp" THEN GetSetCookie ELSE {"keep"}

Failed(r, stage) == NextStage(stage, r.ok) = "idle"

\* the final probe is answered only if authenticate() gets as far as step 4
FinalProbeFor(cr, lr, lc, pr, pc2) ==
    LET s1 == get_csrf_token(NewAuth, cr)
        s2 == perform_login(s1.a, NoCsrf, lr, lc, pr, pc2)
    IN  IF s1.ok /\ lr.kind # "none" /\ s2.ok /\ extract_session_id(s2.a).ok
        THEN ProbeContents ELSE {NoProbe}

\* authenticate() is entered
StartAuthenticate ==
    /\ pc = "idle"
    /\ authCalls < MaxAuthCalls
    /\ authCalls' = authCalls + 1
    /\ pc' = "csrf"
    /\ log' = <<>>
    /\ passed' = <<>>
    /\ loginResp' = NoLogin
    /\ fallbackProbe' = NoProbe
    /\ finalProbe' = NoProbe
    /\ jarAtExtract' = Absent
    /\ ret' = [call |-> "authenticate", val |-> Pending]
    /\ UNCHANGED <<auth, csrfObtained>>

\* authenticate() step 1
AuthCsrfStep ==
    /\ pc = "csrf"
    /\ \E cr \in CsrfResponses :
        LET r == get_csrf_token(auth, cr)
        IN  /\ auth' = r.a
            /\ log' = log \o r.log
            /\ passed' = IF r.ok THEN Append(passed, "csrf") ELSE passed
            /\ csrfObtained' = (csrfObtained \/ r.ok)
            /\ pc' = NextStage("csrf", r.ok)
            /\ ret' = IF Failed(r, "csrf") THEN [ret EXCEPT !.val = PyNone] ELSE ret
    /\ UNCHANGED <<loginResp, fallbackProbe, finalProbe, jarAtExtract, authCalls>>

\* one run of _perform_login on the instance
LoginRun(stage) ==
    \E cr \in CsrfFor(auth) : \E lr \in LoginFor(auth, cr) :
    \E lc \in LoginCookieFor(lr) : \E pr \in ProbeFor(lr) :
    \E pc2 \in ProbeCookieFor(pr) :
        LET r == perform_login(auth, cr, lr, lc, pr, pc2)
        IN  /\ auth' = r.a
            /\ log' = (IF stage = "direct" THEN <<>> ELSE log) \o r.log
            /\ loginResp' = IF r.posted THEN lr ELSE NoLogin
            /\ fallbackProbe' = IF r.probed THEN pr ELSE NoProbe
            /\ csrfObtained' = (csrfObtained \/ (NeedsCsrf(auth) /\ get_csrf_token(auth, cr).ok))
            /\ IF stage = "direct"
               THEN /\ pc' = "idle"
                    /\ passed' = <<>>
                    /\ ret' = [call |-> "_perform_login",
                               val |-> IF r.ok THEN "True" ELSE "False"]
               ELSE /\ pc' = NextStage("login", r.ok)
                    /\ passed' = IF r.ok THEN Append(passed, "login") ELSE passed
                    /\ ret' = IF Failed(r, "login") THEN [ret EXCEPT !.val = PyNone]
                              ELSE ret

\* authenticate() step 2
AuthLoginStep ==
    /\ pc = "login"
    /\ LoginRun("login")
    /\ UNCHANGED <<finalProbe, jarAtExtract, authCalls>>

\* authenticate() step 3
AuthExtractStep ==
    /\ pc = "extract"
    /\ LET r == extract_session_id(auth)
       IN  /\ auth' = r.a
           /\ log' = log \o r.log
           /\ jarAtExtract' = auth.jar
           /\ passed' = IF r.ok THEN Append(passed, "extract") ELSE passed
           /\ pc' = NextStage("extract", r.ok)
           /\ ret' = IF Failed(r, "extract") THEN [ret EXCEPT !.val = PyNone] ELSE ret
    /\ UNCHANGED <<loginResp, fallbackProbe, finalProbe, authCalls, csrfObtained>>

\* authenticate() step 4 and the return
AuthVerifyStep ==
    /\ pc = "verify"
    /\ \E pr \in ProbeContents : \E pc2 \in ProbeCookieFor(pr) :
        LET r == verify_login(auth, pr, pc2)
        IN  /\ auth' = r.a
            /\ log' = log \o r.log
            /\ finalProbe' = pr
            /\ passed' = IF r.ok THEN Append(passed, "verify") ELSE passed
            /\ pc' = "idle"
            /\ ret' = [ret EXCEPT !.val =
                        IF NextStage("verify", r.ok) = "return"
                        THEN authenticate_return(r.a) ELSE PyNone]
    /\ UNCHANGED <<loginResp, fallbackProbe, jarAtExtract, authCalls, csrfObtained>>

\* _perform_login() called on the instance outside authenticate()
CallPerformLogin ==
    /\ pc = "idle"
    /\ authCalls < MaxAuthCalls
    /\ authCalls' = authCalls + 1
    /\ LoginRun("direct")
    /\ finalProbe' = NoProbe
    /\ jarAtExtract' = Absent

(***************************************************************************)
(* The persisted session cache and get_fff_session                         *)
(***************************************************************************)
MAX_AGE == 14 * 24 * 60 * 60
Emails == {"a@x", "b@x"}

\* the content of fff_session.json: no file, something json_read cannot turn
\* into a non-empty object, or an object; session_id is PyNone when the key
\* is missing, ts_kind tells whether 'timestamp' is a number, missing or text
SessionFile(k, sid, tk, ts, em) ==
    [kind |-> k, session_id |-> sid, ts_kind |-> tk, timestamp |-> ts, email |-> em]
MissingFile == SessionFile("missing", PyNone, "missing", 0, "")
MalformedFile == SessionFile("malformed", PyNone, "missing", 0, "")
\* a file holding JSON that is not an object (MalformedFile stands for a file
\* that is not JSON at all, an empty one included)
ArrayFile == SessionFile("array", PyNone, "missing", 0, "")
InitFiles ==
    {MissingFile, MalformedFile, ArrayFile,
     SessionFile("object", "sessOld", "int", Epoch0 - MAX_AGE + 1, "a@x"),
     SessionFile("object", "sessOld", "missing", 0, "a@x"),
     SessionFile("object", "sessOld", "str", 0, "a@x"),
     SessionFile("object", "", "int", Epoch0, "a@x"),
     SessionFile("object", PyNone, "int", Epoch0, "a@x")}

VARIABLES
    file,           \* the session cache file
    now,            \* int(time.time())
    ticks,          \* number of clock advances so far
    lastLoad,       \* the latest load_session_from_file: what it read and returned
    lastSave,       \* the latest save_session_to_file: what it found, wrote, returned
    gfs,            \* the get_fff_session call in progress or last finished
    sessionCalls    \* number of get_fff_session calls so far

sessionVars == <<file, now, ticks, lastLoad, lastSave, gfs, sessionCalls>>

NoLoad == [done |-> FALSE, file |-> MissingFile, now |-> 0, val |-> PyNone]
NoSave == [done |-> FALSE, session_id |-> PyNone, email |-> "", now |-> 0,
           before |-> MissingFile, after |-> MissingFile, ok |-> FALSE]
\* gfs: pc is the position in get_fff_session, auth the FFFAuth it made, wire
\* the requests that instance sent, trace the calls made so far, storeAtLoad
\* and nowAtLoad what the store and the clock were when it was consulted
NoGfs == [pc |-> "idle", called |-> FALSE, email |-> "", force_new |-> FALSE,
          loaded |-> Pending, authenticated |-> Pending, auth |-> NewAuth,
          wire |-> <<>>, saved |-> "none", trace |-> <<>>, val |-> Pending,
          storeAtLoad |-> MissingFile, nowAtLoad |-> 0]

\* whether a session of that age is too old
TooOldAtBoundary(age) == age >= MAX_AGE

TooOld(age) == age > MAX_AGE

\* a load that takes the present time for a timestamp the file lacks
load_session_from_file_default_now(f, t) ==
    IF f.kind # "object" THEN PyNone
    ELSE IF f.ts_kind = "str" THEN PyNone
    ELSE LET session_age == t - (IF f.ts_kind = "missing" THEN t ELSE f.timestamp)
         IN  IF TooOld(session_age) THEN PyNone ELSE f.session_id

\* FFFAuth.load_session_from_file: json_read raises or returns nothing for a
\* file that is missing, empty or not JSON; .get raises on JSON that is not
\* an object, the subtraction on a timestamp that is not a number; every
\* exception is caught
load_session_from_file(f, t) ==
    IF f.kind # "object" THEN PyNone
    ELSE IF f.ts_kind = "str" THEN PyNone
    ELSE LET session_age == t - (IF f.ts_kind = "missing" THEN 0 ELSE f.timestamp)
         IN  IF TooOld(session_age) THEN PyNone ELSE f.session_id

\* outcomes of json_write: written, or failed leaving the old content or a
\* truncated file
WriteOutcomes == {"ok", "fail_kept", "fail_truncated"}

\* what get_fff_session does once the store has been consulted
AfterLoad(force_new, session_id) ==
    IF ~force_new /\ ~Falsy(session_id) THEN "return" ELSE "auth"

\* what get_fff_session does with the result of authenticate()
AfterAuthNoSave(session_id) == "return"

\* a get_fff_session that saves whatever authenticate() returned
AfterAuthAlwaysSave(session_id) == "save"

AfterAuth(session_id) ==
    IF ~Falsy(session_id) /\ session_id # Raised THEN "save" ELSE "return"

\* a save that keeps the timestamp of the object it replaces
save_session_to_file_keep_timestamp(a, email, f, t, w) ==
    IF Falsy(a.session_id) THEN [file |-> f, ok |-> FALSE]
    ELSE IF w = "ok"
    THEN [file |-> SessionFile("object", a.session_id, "int",
                               IF f.kind = "object" /\ f.ts_kind = "int"
                               THEN f.timestamp ELSE t, email),
          ok |-> TRUE]
    ELSE IF w = "fail_kept" THEN [file |-> f, ok |-> FALSE]
    ELSE [file |-> MalformedFile, ok |-> FALSE]

\* FFFAuth.save_session_to_file: the file afterwards and the result
save_session_to_file(a, email, f, t, w) ==
    IF Falsy(a.session_id) THEN [file |-> f, ok |-> FALSE]
    ELSE IF w = "ok"
    THEN [file |-> SessionFile("object", a.session_id, "int", t, email), ok |-> TRUE]
    ELSE IF w = "fail_kept" THEN [file |-> f, ok |-> FALSE]
    ELSE [file |-> MalformedFile, ok |-> FALSE]

\* the clock advances between two calls
Tick ==
    /\ gfs.pc = "idle"
    /\ ticks < MaxTicks
    /\ ticks' = ticks + 1
    /\ \E d \in {1, MAX_AGE} : now' = now + d
    /\ UNCHANGED <<file, lastLoad, lastSave, gfs, sessionCalls>>

\* FFFAuth.load_session_from_file(session_file) called on its own
LoadSessionFromFile ==
    /\ gfs.pc = "idle"
    /\ lastLoad' = [done |-> TRUE, file |-> file, now |-> now,
                    val |-> load_session_from_file(file, now)]
    /\ UNCHANGED <<file, now, ticks, lastSave, gfs, sessionCalls>>

\* session ids an FFFAuth instance may hold when asked to save
SaveIds == {PyNone, "", "sessNew"}

\* FFFAuth.save_session_to_file(session_file) called on its own, before
\* anything else
SaveSessionToFile ==
    /\ ~gfs.called /\ ticks = 0
    /\ ~lastSave.done /\ ~lastLoad.done
    /\ \E sid \in SaveIds, em \in {"b@x"}, w \in WriteOutcomes :
        LET a == [NewAuth EXCEPT !.session_id = sid]
            r == save_session_to_file(a, em, file, now, w)
        IN  /\ file' = r.file
            /\ lastSave' = [done |-> TRUE, session_id |-> sid, email |-> em,
                            now |-> now, before |-> file, after |-> r.file,
                            ok |-> r.ok]
    /\ UNCHANGED <<now, ticks, lastLoad, gfs, sessionCalls>>

\* get_fff_session(email, password, force_new) is entered
GfsStart ==
    /\ gfs.pc = "idle"
    /\ sessionCalls < MaxSessionCalls
    /\ sessionCalls' = sessionCalls + 1
    /\ \E em \in Emails, fn \in BOOLEAN :
        gfs' = [NoGfs EXCEPT !.called = TRUE, !.email = em, !.force_new = fn,
                             !.pc = IF fn THEN "auth" ELSE "load"]
    /\ lastLoad' = NoLoad
    /\ lastSave' = NoSave
    /\ UNCHANGED <<file, now, ticks>>

\* lines 309-313: the saved session is tried first
GfsLoad ==
    /\ gfs.pc = "load"
    /\ LET session_id == load_session_from_file(file, now)
       IN  /\ lastLoad' = [done |-> TRUE, file |-> file, now |-> now,
                           val |-> session_id]
           /\ gfs' = [gfs EXCEPT !.loaded = session_id,
                                 !.storeAtLoad = file,
                                 !.nowAtLoad = now,
                                 !.trace = Append(@, "load"),
                                 !.pc = IF AfterLoad(gfs.force_new, session_id) = "return"
                                        THEN "idle" ELSE "auth",
                                 !.val = IF AfterLoad(gfs.force_new, session_id) = "return"
                                         THEN session_id ELSE Pending]
    /\ UNCHANGED <<file, now, ticks, lastSave, sessionCalls>>

\* lines 316-317: a new FFFAuth is made and authenticate() run on it
GfsAuthenticate ==
    /\ gfs.pc = "auth"
    /\ \E cr \in CsrfResponses :
       \E lr \in (IF get_csrf_token(NewAuth, cr).ok THEN LoginContents ELSE {NoLogin}) :
       \E lc \in LoginCookieFor(lr) : \E pr \in ProbeFor(lr) :
       \E pc2 \in ProbeCookieFor(pr) :
       \E fr \in FinalProbeFor(cr, lr, lc, pr, pc2) : \E fc \in ProbeCookieFor(fr) :
        LET r == authenticate(NewAuth, cr, lr, lc, pr, pc2, fr, fc)
        IN  gfs' = [gfs EXCEPT !.authenticated = r.val,
                               !.auth = r.a,
                               !.wire = Evs(r.log),
                               !.trace = Append(@, "authenticate"),
                               !.pc = IF AfterAuth(r.val) = "save" THEN "save" ELSE "idle",
                               !.val = IF AfterAuth(r.val) = "save" THEN Pending ELSE r.val]
    /\ UNCHANGED <<file, now, ticks, lastLoad, lastSave, sessionCalls>>

\* lines 319-326: the new session is saved and returned
GfsSave ==
    /\ gfs.pc = "save"
    /\ \E w \in WriteOutcomes :
        LET r == save_session_to_file(gfs.auth, gfs.email, file, now, w)
        IN  /\ file' = r.file
            /\ lastSave' = [done |-> TRUE, session_id |-> gfs.auth.session_id,
                            email |-> gfs.email, now |-> now, before |-> file,
                            after |-> r.file, ok |-> r.ok]
            /\ gfs' = [gfs EXCEPT !.saved = IF r.ok THEN "True" ELSE "False",
                                  !.trace = Append(@, "save"),
                                  !.pc = "idle",
                                  !.val = gfs.authenticated]
    /\ UNCHANGED <<now, ticks, lastLoad, sessionCalls>>

(***************************************************************************)
(* functions/format.py.  Numbers that can carry decimals are floats, held  *)
(* in hundredths; a dict is a function from its keys to values.            *)
(***************************************************************************)
FloatV(h) == [t |-> "float", n |-> h, s |-> ""]
\* dict.get / `in` on a key the dict does not hold
AbsentKey == [t |-> "absent", n |-> 0, s |-> ""]
Empty == StrV("")

Hundredths(v) == IF v.t = "int" THEN 100 * v.n ELSE v.n

\* float() that does not read a str
PyFloatNumbersOnly(v) ==
    IF v.t \in {"int", "float"} THEN [ok |-> TRUE, h |-> Hundredths(v)]
    ELSE [ok |-> FALSE, h |-> 0]

\* float(value): ok is FALSE where Python raises ValueError or TypeError
PyFloat(v) ==
    CASE v.t \in {"int", "float"} -> [ok |-> TRUE, h |-> Hundredths(v)]
      [] v.t = "str" /\ v.s \in {"0", "0.0"} -> [ok |-> TRUE, h |-> 0]
      [] v.t = "str" /\ v.s = "2" -> [ok |-> TRUE, h |-> 200]
      [] OTHER -> [ok |-> FALSE, h |-> 0]

\* str(value) of a number
PyStr(v) ==
    IF v.t = "int" THEN ToString(v.n)
    ELSE ToString(v.n \div 100) \o "." \o
         (IF v.n % 10 = 0 THEN ToString((v.n % 100) \div 10)
          ELSE IF v.n % 100 < 10 THEN "0" \o ToString(v.n % 100)
          ELSE ToString(v.n % 100))

\* format_null_data that also turns None into 0
format_null_data_nulls_to_zero(data) ==
    [k \in DOMAIN data |->
        IF data[k].t = "none" THEN IntV(0)
        ELSE IF PyFloat(data[k]).ok /\ PyFloat(data[k]).h = 0 THEN Empty
        ELSE data[k]]

format_null_data(data) ==
    [k \in DOMAIN data |->
        IF data[k].t # "none" /\ PyFloat(data[k]).ok /\ PyFloat(data[k]).h = 0
        THEN Empty
        ELSE data[k]]

\* common_modules.clean_text: surrounding white space is removed
clean_text(x) ==
    CASE x = " Forward " -> "Forward"
      [] x = " ARS" -> "ARS"
      [] OTHER -> x

\* str.lower()
lower(x) ==
    CASE x = "Goalkeeper" -> "goalkeeper"
      [] x = "Defender" -> "defender"
      [] x = "Midfielder" -> "midfielder"
      [] x \in {"Forward", "FORWARD"} -> "forward"
      [] x = "Striker" -> "striker"
      [] x = "GK" -> "gk"
      [] x = "D" -> "d"
      [] x = "M" -> "m"
      [] x = "F" -> "f"
      [] OTHER -> x

\* format_position comparing the label as it is written
format_position_exact(position_id) ==
    IF position_id.t # "str"
    THEN IF position_id.t = "none" THEN Empty ELSE StrV(PyStr(position_id))
    ELSE LET position_clean == position_id.s
         IN  CASE position_clean = "Goalkeeper" -> StrV("GK")
               [] position_clean = "Defender" -> StrV("D")
               [] position_clean = "Midfielder" -> StrV("M")
               [] position_clean = "Forward" -> StrV("F")
               [] OTHER -> position_id

format_position(position_id) ==
    IF position_id.t # "str"
    THEN IF position_id.t = "none" THEN Empty ELSE StrV(PyStr(position_id))
    ELSE LET position_clean == lower(clean_text(position_id.s))
         IN  CASE position_clean = "goalkeeper" -> StrV("GK")
               [] position_clean = "defender" -> StrV("D")
               [] position_clean = "midfielder" -> StrV("M")
               [] position_clean = "forward" -> StrV("F")
               [] OTHER -> position_id

\* common_modules.clean_price: the number a price text stands for
clean_price(x) ==
    CASE x = "8.5" -> [ok |-> TRUE, h |-> 850]
      [] x = "0" -> [ok |-> TRUE, h |-> 0]
      [] OTHER -> [ok |-> FALSE, h |-> 0]

format_price(price) ==
    CASE price.t = "none" -> FloatV(0)
      [] price.t \in {"int", "float"} -> FloatV(Hundredths(price))
      [] OTHER -> LET r == clean_price(price.s)
                  IN  IF r.ok THEN FloatV(r.h) ELSE FloatV(0)

\* a substitution that removes nothing
remove_special_nothing(x) == x

\* re.sub(r"[^\w\s\-']", '', x)
remove_special(x) ==
    CASE x = "A. Smith" -> "A Smith"
      [] OTHER -> x

clean_player_name(name) ==
    IF name.t # "str"
    THEN IF name.t = "none" THEN Empty ELSE StrV(PyStr(name))
    ELSE StrV(remove_special(clean_text(name.s)))

format_team_abbreviation(team_name) ==
    IF team_name.t # "str"
    THEN IF team_name.t = "none" THEN Empty ELSE StrV(PyStr(team_name))
    ELSE LET team_clean == clean_text(team_name.s)
         IN  CASE team_clean = "Arsenal" -> StrV("ARS")
               [] team_clean = "Chelsea" -> StrV("CHE")
               [] OTHER -> StrV(team_clean)

\* validate_player_data up to the call of format_null_data
clean_player_fields(player_data) ==
    [k \in DOMAIN player_data |->
        CASE k = "known_name" -> clean_player_name(player_data[k])
          [] k = "abbr" -> format_team_abbreviation(player_data[k])
          [] k = "position" -> format_position(player_data[k])
          [] k = "price" -> format_price(player_data[k])
          [] OTHER -> player_data[k]]

validate_player_data(player_data) ==
    format_null_data(clean_player_fields(player_data))

\* round(a / b, 0) for integers a and b # 0, ties to the even neighbour
RoundHalfEven(a, b) ==
    LET x == IF b < 0 THEN -a ELSE a
        y == IF b < 0 THEN -b ELSE b
        q == x \div y
        r == x % y
    IN  IF 2 * r < y THEN q
        ELSE IF 2 * r > y THEN q + 1
        ELSE q + (q % 2)

\* the involvement computed from the goals alone
calculate_expected_goals_involvement_goals_only(exp_goals, exp_assists, exp_goals_team) ==
    LET total_exp_goals == PyFloat(exp_goals)
        total_exp_assists == PyFloat(exp_assists)
        team_exp_goals == PyFloat(exp_goals_team)
    IN  IF ~(total_exp_goals.ok /\ total_exp_assists.ok /\ team_exp_goals.ok)
        THEN NoneV
        ELSE IF team_exp_goals.h = 0 THEN NoneV
        ELSE FloatV(RoundHalfEven(total_exp_goals.h * 10000, team_exp_goals.h))

calculate_expected_goals_involvement(exp_goals, exp_assists, exp_goals_team) ==
    LET total_exp_goals == PyFloat(exp_goals)
        total_exp_assists == PyFloat(exp_assists)
        team_exp_goals == PyFloat(exp_goals_team)
    IN  IF ~(total_exp_goals.ok /\ total_exp_assists.ok /\ team_exp_goals.ok)
        THEN NoneV
        ELSE IF team_exp_goals.h = 0 THEN NoneV
        ELSE FloatV(RoundHalfEven((total_exp_goals.h + total_exp_assists.h) * 10000,
                                  team_exp_goals.h))

(***************************************************************************)
(* FFFPlayersParser._process_player_data (players.py)                      *)
(***************************************************************************)
required_fields == {"code", "known_name", "team_short_name", "position_name", "price"}
\* keys the stats sub-object of a raw record may carry
StatsKeys ==
    {"exp_goals", "exp_assists", "exp_goals_team", "game_started", "goals",
     "shots", "expGA", "exp_goals_involvement"}
\* the fallback of _get_column_order
DefaultOrder == {"known_name", "abbr", "position", "price", "goals", "assists"}
\* the keys of a columns file
ConfiguredOrder ==
    {"known_name", "abbr", "position", "price", "gw", "venue", "expGA",
     "exp_goals_involvement", "game_started", "goals", "exp_goals"}
\* what the columns file yields: nothing usable, or its keys
ColumnFiles == {{}, ConfiguredOrder}

\* a column order that lets every stats key through
get_column_order_everything(columns) ==
    DefaultOrder \cup ConfiguredOrder \cup StatsKeys

\* _get_column_order: the keys of the columns file, or the fallback
get_column_order(columns) == IF columns = {} THEN DefaultOrder ELSE columns

\* a sub-object of a raw record: a dict, JSON null, or not there at all
NoFields(keys) == [k \in keys |-> AbsentKey]
AbsentObject(keys) == [kind |-> "absent", f |-> NoFields(keys)]
NullObject(keys) == [kind |-> "null", f |-> NoFields(keys)]
Player(code, known_name, team_short_name, position_name, price) ==
    [kind |-> "dict",
     f |-> [code |-> code, known_name |-> known_name,
            team_short_name |-> team_short_name,
            position_name |-> position_name, price |-> price]]
Stats(exp_goals, exp_assists, exp_goals_team, game_started, goals, shots, expGA, exp_goals_involvement) ==
    [kind |-> "dict",
     f |-> [exp_goals |-> exp_goals, exp_assists |-> exp_assists,
            exp_goals_team |-> exp_goals_team, game_started |-> game_started,
            goals |-> goals, shots |-> shots, expGA |-> expGA,
            exp_goals_involvement |-> exp_goals_involvement]]

\* the sum that forgets its second operand
PyAddFirstOnly(a, b) == [ok |-> TRUE, v |-> a]

\* a + b of two values after `or 0`; ok is FALSE for a TypeError
PyAdd(a, b) ==
    CASE a.t = "int" /\ b.t = "int" -> [ok |-> TRUE, v |-> IntV(a.n + b.n)]
      [] a.t \in {"int", "float"} /\ b.t \in {"int", "float"} ->
            [ok |-> TRUE, v |-> FloatV(Hundredths(a) + Hundredths(b))]
      [] a.t = "str" /\ b.t = "str" -> [ok |-> TRUE, v |-> StrV(a.s \o b.s)]
      [] OTHER -> [ok |-> FALSE, v |-> NoneV]

NoRecord == [status |-> "skip", key |-> <<NoneV, NoneV>>, assembled |-> <<>>,
             cleaned |-> <<>>, record |-> <<>>]

\* the body of the loop of _process_player_data for one item: "ok" with the
\* key and the record, "skip" (missing required fields) or "error" (the
\* except branch)
process_item(item, min_gw, venue, columns) ==
    LET player_info == item.player
        stats_info == item.stats
        missing_fields == {k \in required_fields : player_info.f[k] = AbsentKey}
        get(k) == IF stats_info.f[k] = AbsentKey THEN IntV(0) ELSE stats_info.f[k]
        orZero(v) == IF Truthy(v) THEN v ELSE IntV(0)
        exp_goals == orZero(get("exp_goals"))
        exp_assists == orZero(get("exp_assists"))
        exp_ga == PyAdd(exp_goals, exp_assists)
        exp_goals_team == orZero(get("exp_goals_team"))
        order == get_column_order(columns)
        filtered_stats == {k \in StatsKeys : stats_info.f[k] # AbsentKey /\ k \in order}
        base == [known_name |-> player_info.f.known_name,
                 playerId |-> player_info.f.code,
                 abbr |-> player_info.f.team_short_name,
                 position |-> format_position(player_info.f.position_name),
                 price |-> player_info.f.price,
                 expGA |-> exp_ga.v,
                 exp_goals_involvement |->
                    calculate_expected_goals_involvement(
                        exp_goals, exp_assists, exp_goals_team),
                 gw |-> min_gw,
                 venue |-> venue,
                 game_started |-> get("game_started")]
        player_record ==
            [k \in DOMAIN base \cup filtered_stats |->
                IF k \in filtered_stats THEN stats_info.f[k] ELSE base[k]]
    IN  IF player_info.kind = "null" THEN [NoRecord EXCEPT !.status = "error"]
        ELSE IF missing_fields # {} THEN NoRecord
        ELSE IF stats_info.kind = "null" THEN [NoRecord EXCEPT !.status = "error"]
        ELSE IF ~exp_ga.ok THEN [NoRecord EXCEPT !.status = "error"]
        ELSE [status |-> "ok",
              key |-> <<player_info.f.known_name, player_info.f.team_short_name>>,
              assembled |-> player_record,
              cleaned |-> clean_player_fields(player_record),
              record |-> validate_player_data(player_record)]

\* the loop body that throws the mapping away when a record raises
process_step_reset_on_error(acc, r) ==
    CASE r.status = "ok" ->
            [data |-> (r.key :> r.record) @@ acc.data,
             ps |-> [acc.ps EXCEPT !.players_processed = @ + 1]]
      [] r.status = "error" ->
            [data |-> <<>>,
             ps |-> [acc.ps EXCEPT !.errors_encountered = @ + 1]]
      [] OTHER -> acc

\* what one item does to processed_data and processing_stats
process_step(acc, r) ==
    CASE r.status = "ok" ->
            [data |-> (r.key :> r.record) @@ acc.data,
             ps |-> [acc.ps EXCEPT !.players_processed = @ + 1]]
      [] r.status = "error" ->
            [acc EXCEPT !.ps.errors_encountered = @ + 1]
      [] OTHER -> acc

RECURSIVE process_items(_, _, _)
process_items(results, i, acc) ==
    IF i > Len(results) THEN acc
    ELSE process_items(results, i + 1, process_step(acc, results[i]))

\* _process_player_data: the returned mapping, the counters, and what each
\* item of the batch came to
process_player_data(batch, min_gw, venue, columns, ps) ==
    LET results == [i \in 1..Len(batch) |->
                        process_item(batch[i], min_gw, venue, columns)]
        done == process_items(results, 1, [data |-> <<>>, ps |-> ps])
    IN  [data |-> done.data, ps |-> done.ps, results |-> results]

\* raw records with one well-formed player and every combination of stats
ExamplePlayer == Player(IntV(1), StrV("A. Smith"), StrV("ARS"), StrV("Forward"), FloatV(850))
RichStats ==
    {Stats(a, b, c, g, x, y, z, w) :
        a \in {AbsentKey, NoneV, IntV(0), FloatV(40), StrV("x")},
        b \in {AbsentKey, IntV(0), FloatV(10)},
        c \in {AbsentKey, NoneV, IntV(0), FloatV(100), FloatV(30)},
        g \in {AbsentKey, IntV(1)},
        x \in {AbsentKey, IntV(0), IntV(2), StrV("0")},
        y \in {AbsentKey, IntV(3)},
        z \in {AbsentKey, FloatV(700)},
        w \in {AbsentKey, FloatV(9900)}}
RichItems == {[player |-> ExamplePlayer, stats |-> s] : s \in RichStats}

\* a pool of raw records for the batches: well-formed ones (two of them with
\* the same name and team), records lacking a required field, records that
\* raise while they are processed
ExampleStats ==
    Stats(FloatV(40), FloatV(10), FloatV(100), IntV(1), AbsentKey, AbsentKey,
          AbsentKey, AbsentKey)
OtherStats ==
    Stats(IntV(0), AbsentKey, IntV(0), AbsentKey, IntV(2), IntV(3),
          AbsentKey, AbsentKey)
WellFormedItems ==
    {[player |-> ExamplePlayer, stats |-> ExampleStats],
     [player |-> ExamplePlayer, stats |-> OtherStats],
     [player |-> Player(IntV(2), StrV("B Jones"), StrV("Arsenal"),
                        StrV("Midfielder"), IntV(6)),
      stats |-> AbsentObject(StatsKeys)]}
LackingItems ==
    {[player |-> [ExamplePlayer EXCEPT !.f[k] = AbsentKey], stats |-> ExampleStats] :
        k \in required_fields}
        \cup {[player |-> AbsentObject(required_fields), stats |-> ExampleStats]}
RaisingItems ==
    {[player |-> NullObject(required_fields), stats |-> ExampleStats],
     [player |-> ExamplePlayer, stats |-> NullObject(StatsKeys)]}
PoolItems == WellFormedItems \cup LackingItems \cup RaisingItems

RECURSIVE SeqsUpTo(_, _)
SeqsUpTo(S, n) ==
    IF n = 0 THEN {<<>>}
    ELSE LET shorter == SeqsUpTo(S, n - 1)
         IN  shorter \cup {Append(q, x) : q \in shorter, x \in S}

Batches == {<<x>> : x \in RichItems} \cup SeqsUpTo(PoolItems, MaxBatch)

\* values of the fields of a dict handed to format_null_data
FieldValues ==
    {IntV(0), FloatV(0), StrV("0"), StrV("0.0"), IntV(2), FloatV(50),
     StrV("2"), StrV("x"), Empty, NoneV}
NullDataInputs == [{"goals", "price"} -> FieldValues]
PositionInputs ==
    {StrV(x) : x \in {"Goalkeeper", "Defender", "Midfielder", "Forward",
                      "forward", "FORWARD", " Forward ", "Striker", "GK", "F", ""}}
        \cup {NoneV, IntV(3)}

VARIABLES
    processing_stats,   \* FFFPlayersParser.processing_stats
    lastProcess,        \* arguments and result of _process_player_data
    nullCall,           \* argument and result of format_null_data
    posCall,            \* argument and result of format_position
    teamsCall           \* arguments and result of teamsInfo

normVars == <<processing_stats, lastProcess, nullCall, posCall, teamsCall>>

NoProcess ==
    [called |-> FALSE, stats |-> <<>>, min_gw |-> NoneV, venue |-> NoneV,
     columns |-> {}, data |-> <<>>, results |-> <<>>]
NoNullCall == [called |-> FALSE, data |-> <<>>, out |-> <<>>]
NoPosCall == [called |-> FALSE, position_id |-> NoneV, out |-> NoneV]
NoTeamsCall == [called |-> FALSE, stats |-> <<>>, ORDER |-> {}, data |-> <<>>]

\* nothing of format.py / _process_player_data has been called yet
Fresh ==
    ~lastProcess.called /\ ~nullCall.called /\ ~posCall.called /\ ~teamsCall.called

ProcessPlayerData ==
    /\ Fresh
    /\ \E stats_ \in Batches, min_gw \in {IntV(1), IntV(2)},
          venue \in {StrV("home"), StrV("away")}, columns \in ColumnFiles :
            LET r == IF stats_ = <<>>
                     THEN [data |-> <<>>, ps |-> processing_stats, results |-> <<>>]
                     ELSE process_player_data(stats_, min_gw, venue, columns,
                                              processing_stats)
            IN  /\ processing_stats' = r.ps
                /\ lastProcess' = [called |-> TRUE, stats |-> stats_,
                                   min_gw |-> min_gw, venue |-> venue,
                                   columns |-> columns, data |-> r.data,
                                   results |-> r.results]
    /\ UNCHANGED <<nullCall, posCall, teamsCall>>

FormatNullData ==
    /\ Fresh
    /\ \E data \in NullDataInputs :
            nullCall' = [called |-> TRUE, data |-> data, out |-> format_null_data(data)]
    /\ UNCHANGED <<processing_stats, lastProcess, posCall, teamsCall>>

FormatPosition ==
    /\ Fresh
    /\ \E position_id \in PositionInputs :
            posCall' = [called |-> TRUE, position_id |-> position_id,
                        out |-> format_position(position_id)]
    /\ UNCHANGED <<processing_stats, lastProcess, nullCall, teamsCall>>

(***************************************************************************)
(* teamsInfo (teams.py)                                                    *)
(***************************************************************************)
\* keys the stats sub-object of a raw team record may carry
TeamStatsKeys == {"goals", "shots", "short_name"}
\* ORDER: the keys of the teams columns file
TeamOrders == {{"short_name", "goals"}, {"goals", "shots"}}
TeamItems ==
    {[team |-> short_name,
      stats |-> [goals |-> g, shots |-> x, short_name |-> n]] :
        short_name \in {"ARS", "CHE"},
        g \in {AbsentKey, IntV(0), IntV(2)},
        x \in {AbsentKey, IntV(3)},
        n \in {AbsentKey, StrV("XXX")}}

\* a team record in which the stats are applied after short_name
teams_record_stats_last(item, ORDER) ==
    LET kept == {k \in TeamStatsKeys : item.stats[k] # AbsentKey /\ k \in ORDER}
    IN  format_null_data(
            [k \in kept \cup {"short_name"} |->
                IF k \in kept THEN item.stats[k] ELSE StrV(item.team)])

\* the body of the loop of teamsInfo: the record stored for one item
teams_record(item, ORDER) ==
    LET kept == {k \in TeamStatsKeys : item.stats[k] # AbsentKey /\ k \in ORDER}
    IN  format_null_data(
            [k \in kept \cup {"short_name"} |->
                IF k = "short_name" THEN StrV(item.team) ELSE item.stats[k]])

RECURSIVE teams_items(_, _, _, _)
teams_items(batch, i, ORDER, data) ==
    IF i > Len(batch) THEN data
    ELSE teams_items(batch, i + 1, ORDER,
            (batch[i].team :> teams_record(batch[i], ORDER)) @@ data)

teamsInfo(batch, ORDER) == teams_items(batch, 1, ORDER, <<>>)

TeamsInfo ==
    /\ Fresh
    /\ \E batch \in SeqsUpTo(TeamItems, MaxTeams), ORDER \in TeamOrders :
            teamsCall' = [called |-> TRUE, stats |-> batch, ORDER |-> ORDER,
                          data |-> teamsInfo(batch, ORDER)]
    /\ UNCHANGED <<processing_stats, lastProcess, nullCall, posCall>>

(***************************************************************************)
(* FFFPlayersParser.parse_full_season and parse_gameweek_range (players.py)*)
(***************************************************************************)
total_gameweeks == 38
\* the venue argument of parse_full_season
ScanVenues == {"home/away", "home", "Home/away"}
\* the YEAR setting
year == StrV("2024")
\* what the server answers during a scan: nothing usable, or one record
ScanResults == {[kind |-> "none", len |-> 0], [kind |-> "list", len |-> 1]}
ScanBatch == <<[player |-> ExamplePlayer, stats |-> ExampleStats]>>

VARIABLES
    scan,       \* the loop of parse_full_season: position, locals, result,
                \* rows in the result file, mapping handed to the writer by
                \* the latest parse_gameweek_range call
    requested,  \* <<gameweek, venue>> of every get_players_stats call of the scan
    run         \* main() and FFFPlayersParser.run: position, arguments,
                \* configuration, result, exit code; probes: test requests of
                \* _authenticate through the stats client; login_probes: the
                \* requests _verify_login made in a get_fff_session that failed

scanVars == <<scan, requested, run>>

NoRun ==
    [pc |-> "idle", min_gw |-> 0, max_gw |-> 0, venue |-> "", session_id |-> FALSE,
     credentials |-> FALSE, probes |-> 0, login_probes |-> 0,
     authenticated |-> FALSE, via |-> "none", verified |-> FALSE,
     cleared |-> FALSE, val |-> FALSE, exit |-> -1]

NoScan ==
    [pc |-> "idle", venue |-> "", gw |-> 0, success_home |-> FALSE,
     success_count |-> 0, interrupted |-> FALSE, rows |-> 0, handed |-> <<>>,
     val |-> FALSE]

\* a writer that keeps one row per key across calls
save_data_merged(sc, data) ==
    [sc EXCEPT !.handed = data,
               !.rows = IF @ = 0 THEN Cardinality(DOMAIN data) ELSE @]

\* _save_data: the mapping of this call is handed to the writer, which adds
\* one row per entry to the result file
save_data(sc, data) ==
    [sc EXCEPT !.handed = data, !.rows = @ + Cardinality(DOMAIN data)]

\* a loop body that asks for the away games only
LoopBody_away_only(sc, gw) ==
    [sc EXCEPT !.gw = gw,
               !.pc = IF sc.venue = "home/away" THEN "away" ELSE "single"]

\* the first statement of the loop body for gameweek gw
LoopBody(sc, gw) ==
    [sc EXCEPT !.gw = gw,
               !.pc = IF sc.venue = "home/away" THEN "home" ELSE "single"]

\* the end of parse_full_season
ScanReturn(sc) == [sc EXCEPT !.pc = "done", !.val = sc.success_count > 0]

\* the loop that gives up at the first gameweek without data
after_leg_stop_on_failure(sc, ok) ==
    LET counted ==
            CASE sc.pc = "home" -> [sc EXCEPT !.success_home = ok]
              [] sc.pc = "away" ->
                    [sc EXCEPT !.success_count =
                        IF sc.success_home /\ ok THEN @ + 1 ELSE @]
              [] OTHER -> [sc EXCEPT !.success_count = IF ok THEN @ + 1 ELSE @]
    IN  IF ~ok THEN ScanReturn(counted)
        ELSE IF sc.pc = "home" THEN [counted EXCEPT !.pc = "away"]
        ELSE IF sc.gw = total_gameweeks THEN ScanReturn(counted)
        ELSE LoopBody(counted, sc.gw + 1)

\* parse_full_season after a parse_gameweek_range call has returned ok
after_leg(sc, ok) ==
    LET counted ==
            CASE sc.pc = "home" -> [sc EXCEPT !.success_home = ok]
              [] sc.pc = "away" ->
                    [sc EXCEPT !.success_count =
                        IF sc.success_home /\ ok THEN @ + 1 ELSE @]
              [] OTHER -> [sc EXCEPT !.success_count = IF ok THEN @ + 1 ELSE @]
    IN  IF sc.pc = "home" THEN [counted EXCEPT !.pc = "away"]
        ELSE IF sc.gw = total_gameweeks THEN ScanReturn(counted)
        ELSE LoopBody(counted, sc.gw + 1)

\* parse_full_season up to the first request
ParseFullSeason ==
    /\ scan.pc = "idle" /\ run.pc = "idle"
    /\ \E venue \in ScanVenues :
            scan' = LoopBody([NoScan EXCEPT !.venue = venue], 1)
    /\ requested' = <<>>
    /\ UNCHANGED <<stats, lastCall, statsCalls, net, pace, falsyMissing, normVars,
                   run>>

\* what follows a parse_gameweek_range call that handed data to the writer
\* (ok) or did not: the rest of the loop of parse_full_season ("leg"), or the
\* return of run's own call ("range")
after_call(mode, sc, data, ok) ==
    LET saved == IF ok THEN save_data(sc, data) ELSE [sc EXCEPT !.handed = <<>>]
    IN  IF mode = "leg" THEN after_leg(saved, ok)
        ELSE [saved EXCEPT !.pc = "done", !.val = ok]

\* parse_gameweek_range(min_gw, max_gw, venue)
GameweekRangeCall(mode, min_gw, max_gw, venue) ==
    LET pre == Preflight(IntV(min_gw), IntV(max_gw), StrV(venue), year,
                         falsyMissing)
        call == [op |-> "players", min_gw |-> IntV(min_gw),
                 max_gw |-> IntV(max_gw), venue |-> StrV(venue),
                 season |-> year, outcome |-> "absent", validated |-> FALSE,
                 res |-> [kind |-> "none", len |-> 0]]
        counted == [processing_stats EXCEPT !.total_requests = @ + 1]
    IN  /\ requested' = Append(requested, <<min_gw, venue>>)
        /\ IF pre = "pass"
           THEN \E res \in ScanResults :
                 LET r == make_request(stats, res)
                     p == process_player_data(ScanBatch, IntV(min_gw),
                                 StrV(venue), ConfiguredOrder, counted)
                     ok == r.outcome = "list" /\ DOMAIN p.data # {}
                 IN  /\ net' = net + 1
                     /\ pace' = paced(pace)
                     /\ stats' = [r.stats EXCEPT !.total_players_fetched = @ + r.len]
                     /\ lastCall' = [call EXCEPT !.outcome = r.outcome,
                                                 !.validated = TRUE,
                                                 !.res = res]
                     /\ processing_stats' =
                             IF r.outcome # "list" THEN counted
                             ELSE IF ok THEN [p.ps EXCEPT !.successful_requests = @ + 1]
                             ELSE p.ps
                     /\ scan' = after_call(mode, scan, p.data, ok)
           ELSE /\ net' = net
                /\ pace' = pace
                /\ stats' = stats
                /\ lastCall' = call
                /\ processing_stats' = counted
                /\ scan' = after_call(mode, scan, <<>>, FALSE)
        /\ UNCHANGED <<statsCalls, falsyMissing, lastProcess, nullCall, posCall,
                       teamsCall, run>>

\* one parse_gameweek_range(gw, gw, venue) call of the loop, and the loop
\* up to the next call
ParseGameweekRange ==
    /\ scan.pc \in {"home", "away", "single"}
    /\ GameweekRangeCall("leg", scan.gw, scan.gw,
                         IF scan.pc = "single" THEN scan.venue ELSE scan.pc)

\* a loop that treats KeyboardInterrupt like any other exception: on to the
\* next gameweek
on_interrupt_continue(sc) ==
    LET noted == [sc EXCEPT !.interrupted = TRUE]
    IN  IF sc.gw = total_gameweeks THEN ScanReturn(noted)
        ELSE LoopBody(noted, sc.gw + 1)

\* except KeyboardInterrupt: break
on_interrupt(sc) == ScanReturn([sc EXCEPT !.interrupted = TRUE])

\* KeyboardInterrupt in the loop body outside parse_gameweek_range (between
\* the legs, in the sleep): the loop is left
Interrupt ==
    /\ scan.pc \in {"home", "away", "single"}
    /\ scan' = on_interrupt(scan)
    /\ UNCHANGED <<requested, run, statsVars, normVars>>

\* where a parse_gameweek_range call can be cut short once its request is on
\* its way: waiting for the answer, or writing the rows
InterruptPoints == {"request", "save"}

\* KeyboardInterrupt inside a parse_gameweek_range call of the loop: no
\* handler below the loop catches it, so the counters stay as they were at
\* that point, the rows written so far stay in the file, and the loop is left
InterruptedLeg ==
    /\ scan.pc \in {"home", "away", "single"}
    /\ LET venue == IF scan.pc = "single" THEN scan.venue ELSE scan.pc
           counted == [processing_stats EXCEPT !.total_requests = @ + 1]
           made == [stats EXCEPT !.requests_made = @ + 1]
           r == make_request(stats, [kind |-> "list", len |-> Len(ScanBatch)])
           p == process_player_data(ScanBatch, IntV(scan.gw), StrV(venue),
                                    ConfiguredOrder, counted)
       IN  /\ Preflight(IntV(scan.gw), IntV(scan.gw), StrV(venue), year,
                        falsyMissing) = "pass"
           /\ requested' = Append(requested, <<scan.gw, venue>>)
           /\ net' = net + 1
           /\ pace' = paced(pace)
           /\ lastCall' = [op |-> "players", min_gw |-> IntV(scan.gw),
                           max_gw |-> IntV(scan.gw), venue |-> StrV(venue),
                           season |-> year, outcome |-> "interrupted",
                           validated |-> TRUE, res |-> [kind |-> "none", len |-> 0]]
           /\ \E point \in InterruptPoints :
                IF point = "request"
                THEN /\ stats' = made
                     /\ processing_stats' = counted
                     /\ scan' = on_interrupt([scan EXCEPT !.handed = <<>>])
                ELSE \E written \in 0..Cardinality(DOMAIN p.data) :
                     /\ stats' = [r.stats EXCEPT !.total_players_fetched = @ + r.len]
                     /\ processing_stats' = p.ps
                     /\ scan' = on_interrupt([scan EXCEPT !.handed = p.data,
                                                          !.rows = @ + written])
    /\ UNCHANGED <<statsCalls, falsyMissing, lastProcess, nullCall, posCall,
                   teamsCall, run>>

(***************************************************************************)
(* main() and FFFPlayersParser.run (players.py)                            *)
(***************************************************************************)
\* --min-gw and --max-gw as given on the command line
RunArgs == {<<1, 38>>, <<2, 2>>, <<0, 5>>, <<3, 2>>}
\* --venue: two of the choices argparse admits
RunVenues == {"home/away", "home"}
\* the configuration: whether SESSIONID is set, whether EMAIL and PASSWORD are
RunConfigs == {<<FALSE, FALSE>>, <<FALSE, TRUE>>, <<TRUE, TRUE>>}
\* rows the result file holds when the program starts
OldRows == {0, 2}
\* the counters of a newly made FFFStatsClient
NewClient ==
    [requests_made |-> 0, successful_requests |-> 0, failed_requests |-> 0,
     total_players_fetched |-> 0, total_teams_fetched |-> 0]

\* every way the site can answer one FFFAuth.authenticate()
AuthInputs ==
    UNION {UNION {UNION {UNION {UNION {UNION {
        {<<cr, lr, lc, pr, pc2, fr, fc>> : fc \in ProbeCookieFor(fr)} :
            fr \in FinalProbeFor(cr, lr, lc, pr, pc2)} :
            pc2 \in ProbeCookieFor(pr)} :
            pr \in ProbeFor(lr)} :
            lc \in LoginCookieFor(lr)} :
            lr \in (IF get_csrf_token(NewAuth, cr).ok
                    THEN LoginContents ELSE {NoLogin})} :
            cr \in CsrfResponses}

\* what get_fff_session amounts to for run: whether it returned a session id,
\* how many times _verify_login asked the statistics API for gameweek 1,
\* where the session id came from and whether the API answered the final
\* probe of the login with data; a usable saved session is returned without
\* any request
GfsOutcomes ==
    {[ok |-> TRUE, probes |-> 0, via |-> "cache", verified |-> FALSE]} \cup
    {LET r == authenticate(NewAuth, x[1], x[2], x[3], x[4], x[5], x[6], x[7])
     IN  [ok |-> ~Falsy(r.val) /\ r.val # Raised,
          probes |-> Cardinality({i \in DOMAIN r.log : r.log[i].ev = "probe"}),
          via |-> "login",
          verified |-> x[6].kind = "resp" /\ x[6].status = 200 /\ x[6].body = "list"] :
        x \in AuthInputs}

\* main() up to the call of _authenticate: the arguments are checked and the
\* parser is made from its configuration
Main ==
    /\ run.pc = "idle" /\ scan.pc = "idle" /\ run.exit = -1
    /\ \E args \in RunArgs, venue \in RunVenues, cfg \in RunConfigs, old \in OldRows :
        LET r == [NoRun EXCEPT !.min_gw = args[1], !.max_gw = args[2],
                               !.venue = venue]
        IN  /\ run' = IF \/ ~(1 <= args[1] /\ args[1] <= 38)
                          \/ ~(1 <= args[2] /\ args[2] <= 38)
                          \/ args[1] > args[2]
                       THEN [r EXCEPT !.pc = "done", !.exit = 1]
                       ELSE [r EXCEPT !.pc = "auth", !.session_id = cfg[1],
                                      !.credentials = cfg[2]]
            /\ scan' = [NoScan EXCEPT !.rows = old]
    /\ requested' = <<>>
    /\ UNCHANGED <<statsVars, normVars>>

\* a run that goes on to clear the files whatever _authenticate returned
after_authenticate_clear_anyway(r, ok) ==
    IF ok THEN [r EXCEPT !.authenticated = TRUE, !.session_id = TRUE, !.pc = "clear"]
    ELSE [r EXCEPT !.pc = "clear"]

\* run after _authenticate has returned ok
after_authenticate(r, ok) ==
    IF ok THEN [r EXCEPT !.authenticated = TRUE, !.session_id = TRUE, !.pc = "clear"]
    ELSE [r EXCEPT !.pc = "done", !.val = FALSE, !.exit = 1]

\* a parser that takes the configured session id without looking at the
\* answer to its test request
session_is_valid_untested(test_data) == TRUE

\* _authenticate, line 145: `test_data is not None`
session_is_valid(test_data) == test_data = "list"

\* _authenticate, and run's test of its result
Authenticate ==
    /\ run.pc = "auth"
    /\ \E res \in (IF run.session_id THEN ScanResults
                    ELSE {[kind |-> "none", len |-> 0]}) :
        LET r == make_request(NewClient, res)
            valid == run.session_id /\ session_is_valid(r.outcome)
            tested == [run EXCEPT !.probes = IF run.session_id THEN 1 ELSE 0]
            answered == res.kind = "list" /\ res.len > 0
            call == [op |-> "players", min_gw |-> IntV(1), max_gw |-> IntV(1),
                     venue |-> StrV("home"), season |-> year,
                     outcome |-> r.outcome, validated |-> TRUE, res |-> res]
        IN  /\ net' = IF run.session_id THEN net + 1 ELSE net
            /\ pace' = IF run.session_id THEN paced(pace) ELSE pace
            /\ lastCall' = IF run.session_id THEN call ELSE lastCall
            /\ IF valid
               THEN /\ stats' = [r.stats EXCEPT !.total_players_fetched = @ + r.len]
                    /\ run' = after_authenticate(
                                [tested EXCEPT !.via = "configured",
                                               !.verified = answered], TRUE)
               ELSE IF ~run.credentials
               THEN /\ stats' = IF run.session_id THEN r.stats ELSE stats
                    /\ run' = after_authenticate(tested, FALSE)
               ELSE \E o \in GfsOutcomes :
                    /\ stats' = IF o.ok THEN NewClient
                                ELSE IF run.session_id THEN r.stats ELSE stats
                    /\ run' = after_authenticate(
                                [tested EXCEPT
                                    !.login_probes = IF o.ok THEN 0 ELSE o.probes,
                                    !.via = IF o.ok THEN o.via ELSE "none",
                                    !.verified = o.ok /\ o.verified], o.ok)
    /\ UNCHANGED <<statsCalls, falsyMissing, normVars, scan, requested>>

\* run, step 2 and the choice of step 3: the result files are removed, then
\* the season is scanned or the one range parsed
ClearFiles ==
    /\ run.pc = "clear"
    /\ run' = [run EXCEPT !.cleared = TRUE, !.pc = "parse"]
    /\ scan' = IF run.min_gw = 1 /\ run.max_gw = 38
               THEN LoopBody([NoScan EXCEPT !.venue = run.venue], 1)
               ELSE [NoScan EXCEPT !.venue = run.venue, !.pc = "range"]
    /\ UNCHANGED <<requested, statsVars, normVars>>

\* run's own parse_gameweek_range(min_gw, max_gw, venue)
RunGameweekRange ==
    /\ run.pc = "parse" /\ scan.pc = "range"
    /\ GameweekRangeCall("range", run.min_gw, run.max_gw, run.venue)

\* run returns what the parse returned; main turns it into the exit code
RunReturn ==
    /\ run.pc = "parse" /\ scan.pc = "done"
    /\ run' = [run EXCEPT !.pc = "done", !.val = scan.val,
                          !.exit = IF scan.val THEN 0 ELSE 1]
    /\ UNCHANGED <<scan, requested, statsVars, normVars>>

vars == <<statsVars, authVars, sessionVars, normVars, scanVars>>

\* the state after construction: a new FFFStatsClient (strict: what
\* validate_required_fields may be), a new FFFAuth, the cache file (one of
\* files) and the clock
InitWith(strict, files) ==
    /\ stats = [requests_made |-> 0, successful_requests |-> 0,
                failed_requests |-> 0, total_players_fetched |-> 0,
                total_teams_fetched |-> 0]
    /\ lastCall = NoCall
    /\ statsCalls = 0
    /\ net = 0
    /\ pace = NoPace
    /\ falsyMissing \in strict
    /\ auth = NewAuth
    /\ pc = "idle"
    /\ log = <<>>
    /\ passed = <<>>
    /\ loginResp = NoLogin
    /\ fallbackProbe = NoProbe
    /\ finalProbe = NoProbe
    /\ jarAtExtract = Absent
    /\ ret = [call |-> "none", val |-> Pending]
    /\ authCalls = 0
    /\ csrfObtained = FALSE
    /\ file \in files
    /\ now = Epoch0
    /\ ticks = 0
    /\ lastLoad = NoLoad
    /\ lastSave = NoSave
    /\ gfs = NoGfs
    /\ sessionCalls = 0
    /\ processing_stats = [total_requests |-> 0, successful_requests |-> 0,
                           players_processed |-> 0, errors_encountered |-> 0]
    /\ lastProcess = NoProcess
    /\ nullCall = NoNullCall
    /\ posCall = NoPosCall
    /\ teamsCall = NoTeamsCall
    /\ scan = NoScan
    /\ requested = <<>>
    /\ run = NoRun

Init == InitWith(BOOLEAN, InitFiles)

NextStats ==
    \/ get_players_stats /\ UNCHANGED <<authVars, sessionVars, normVars, scanVars>>
    \/ get_teams_stats /\ UNCHANGED <<authVars, sessionVars, normVars, scanVars>>

SpecStats == InitWith(BOOLEAN, {MissingFile}) /\ [][NextStats]_vars

NextAuth ==
    \/ StartAuthenticate /\ UNCHANGED <<statsVars, sessionVars, normVars, scanVars>>
    \/ AuthCsrfStep /\ UNCHANGED <<statsVars, sessionVars, normVars, scanVars>>
    \/ AuthLoginStep /\ UNCHANGED <<statsVars, sessionVars, normVars, scanVars>>
    \/ AuthExtractStep /\ UNCHANGED <<statsVars, sessionVars, normVars, scanVars>>
    \/ AuthVerifyStep /\ UNCHANGED <<statsVars, sessionVars, normVars, scanVars>>
    \/ CallPerformLogin /\ UNCHANGED <<statsVars, sessionVars, normVars, scanVars>>

SpecAuth == InitWith({FALSE}, {MissingFile}) /\ [][NextAuth]_vars

NextSession ==
    \/ Tick /\ UNCHANGED <<statsVars, authVars, normVars, scanVars>>
    \/ LoadSessionFromFile /\ UNCHANGED <<statsVars, authVars, normVars, scanVars>>
    \/ GfsStart /\ UNCHANGED <<statsVars, authVars, normVars, scanVars>>
    \/ GfsLoad /\ UNCHANGED <<statsVars, authVars, normVars, scanVars>>
    \/ GfsAuthenticate /\ UNCHANGED <<statsVars, authVars, normVars, scanVars>>
    \/ GfsSave /\ UNCHANGED <<statsVars, authVars, normVars, scanVars>>
    \/ SaveSessionToFile /\ UNCHANGED <<statsVars, authVars, normVars, scanVars>>

NextNormalize ==
    \/ ProcessPlayerData /\ UNCHANGED <<statsVars, authVars, sessionVars, scanVars>>
    \/ FormatNullData /\ UNCHANGED <<statsVars, authVars, sessionVars, scanVars>>
    \/ FormatPosition /\ UNCHANGED <<statsVars, authVars, sessionVars, scanVars>>
    \/ TeamsInfo /\ UNCHANGED <<statsVars, authVars, sessionVars, scanVars>>

SpecNormalize == InitWith({FALSE}, {MissingFile}) /\ [][NextNormalize]_vars

NextScan ==
    \/ ParseFullSeason /\ UNCHANGED <<authVars, sessionVars>>
    \/ ParseGameweekRange /\ UNCHANGED <<authVars, sessionVars>>
    \/ Interrupt /\ UNCHANGED <<authVars, sessionVars>>
    \/ InterruptedLeg /\ UNCHANGED <<authVars, sessionVars>>

SpecScan == InitWith({FALSE}, {MissingFile}) /\ [][NextScan]_vars

NextRun ==
    \/ Main /\ UNCHANGED <<authVars, sessionVars>>
    \/ Authenticate /\ UNCHANGED <<authVars, sessionVars>>
    \/ ClearFiles /\ UNCHANGED <<authVars, sessionVars>>
    \/ RunGameweekRange /\ UNCHANGED <<authVars, sessionVars>>
    \/ ParseGameweekRange /\ UNCHANGED <<authVars, sessionVars>>
    \/ RunReturn /\ UNCHANGED <<authVars, sessionVars>>

SpecRun == InitWith({FALSE}, {MissingFile}) /\ [][NextRun]_vars

Next == NextStats \/ NextAuth \/ NextSession \/ NextNormalize \/ NextScan \/ NextRun

Spec == Init /\ [][Next]_vars

SpecSession == InitWith({FALSE}, InitFiles) /\ [][NextSession]_vars

(***************************************************************************)
(* C1: with a present season, integer gameweeks and a string venue, a call *)
(* of get_players_stats / get_teams_stats passes the pre-flight validation *)
(* exactly when 1 <= min_gw <= max_gw <= 38 and venue is 'home/away',      *)
(* 'home' or 'away'; every other call returns absent, issues no network    *)
(* request and leaves every counter unchanged.                             *)
(***************************************************************************)
C1_InScope(c) ==
    /\ c.op # "none"
    /\ c.season.t = "str" /\ c.season.s # ""
    /\ c.min_gw.t = "int" /\ c.max_gw.t = "int" /\ c.venue.t = "str"

C1_ValidParams(c) ==
    /\ 1 <= c.min_gw.n /\ c.min_gw.n <= c.max_gw.n /\ c.max_gw.n <= 38
    /\ c.venue.s \in {"home/away", "home", "away"}

C1_Validation ==
    [][(statsCalls' # statsCalls /\ C1_InScope(lastCall')) =>
        /\ lastCall'.validated <=> C1_ValidParams(lastCall')
        /\ C1_ValidParams(lastCall') => net' = net + 1
        /\ ~C1_ValidParams(lastCall') =>
                /\ lastCall'.outcome = "absent"
                /\ net' = net
                /\ stats' = stats]_vars

\* a call rejected for a max_gw beyond 38
C1_Witness ==
    /\ C1_InScope(lastCall)
    /\ lastCall.max_gw.n = 39 /\ lastCall.min_gw.n = 1
    /\ lastCall.venue.s = "home"
    /\ lastCall.outcome = "absent" /\ ~lastCall.validated
    /\ stats.requests_made = 0 /\ net = 0

(***************************************************************************)
(* Observations shared by the claims about FFFAuth                         *)
(***************************************************************************)
IsPrefix(p, q) == Len(p) <= Len(q) /\ \A i \in 1..Len(p) : p[i] = q[i]
InAuthenticate == ret.call = "authenticate"
AuthenticateReturned == ret.call = "authenticate" /\ pc = "idle"
\* _perform_login has run to its end in the current call
LoginStepDone ==
    \/ ret.call = "_perform_login"
    \/ ret.call = "authenticate" /\ pc \notin {"csrf", "login"} /\ loginResp.kind # "none"
\* ... and returned True
LoginStepSucceeded ==
    \/ ret.call = "_perform_login" /\ ret.val = "True"
    \/ ret.call = "authenticate" /\ \E i \in DOMAIN passed : passed[i] = "login"
Rank(p) ==
    CASE p = "idle" -> 0 [] p = "csrf" -> 1 [] p = "login" -> 2
      [] p = "extract" -> 3 [] p = "verify" -> 4 [] OTHER -> 5

(***************************************************************************)
(* C4 as stated: within one authenticate() the stages run in the order     *)
(* CSRF fetch, login submit, session-cookie extraction, verification, and  *)
(* no verification probe is issued before the session cookie has been      *)
(* extracted.  The fallback probe of _perform_login refutes the last part. *)
(***************************************************************************)
C4_StagesInOrder ==
    InAuthenticate =>
        /\ \/ IsPrefix(Evs(log), <<"csrf_get", "login_post", "extract", "probe">>)
           \/ IsPrefix(Evs(log), <<"csrf_get", "login_post", "probe", "extract", "probe">>)
        /\ pc = "login" => passed = <<"csrf">>
        /\ pc = "extract" => passed = <<"csrf", "login">>
        /\ pc = "verify" => passed = <<"csrf", "login", "extract">>

C4_Original ==
    /\ C4_StagesInOrder
    /\ InAuthenticate =>
        \A i \in DOMAIN log :
            log[i].ev = "probe" => \E j \in 1..(i - 1) : log[j].ev = "extract"

(***************************************************************************)
(* C4 amended: within one authenticate() the stages run strictly in the    *)
(* order CSRF fetch, login submit, extraction, final verification, each    *)
(* only after its predecessor returned True and never backwards; the only  *)
(* probe issued before the extraction is the fallback probe of the login   *)
(* step, right after the login POST, when the response was ambiguous.      *)
(***************************************************************************)
C4_AmbiguousLogin ==
    /\ loginResp.kind = "resp" /\ loginResp.status = 200
    /\ ~loginResp.invalid /\ ~loginResp.redirected /\ ~loginResp.marker

C4_StageOrder ==
    /\ [](C4_StagesInOrder)
    /\ [](InAuthenticate =>
            \A i \in DOMAIN log :
                (log[i].ev = "probe" /\ ~\E j \in 1..(i - 1) : log[j].ev = "extract")
                    => (i = 3 /\ log[2].ev = "login_post" /\ C4_AmbiguousLogin
                        /\ fallbackProbe.kind # "none"))
    /\ [][pc' # pc => (pc' = "idle" \/ Rank(pc') = Rank(pc) + 1)]_vars

\* an attempt that went through all four stages, with the fallback probe
C4_Witness ==
    /\ AuthenticateReturned
    /\ Evs(log) = <<"csrf_get", "login_post", "probe", "extract", "probe">>
    /\ passed = <<"csrf", "login", "extract", "verify">>

(***************************************************************************)
(* C5: every login POST carries a CSRF token that _get_csrf_token obtained *)
(* on the same instance; when none can be obtained no POST is made.        *)
(***************************************************************************)
C5_CsrfBeforePost ==
    /\ \A i \in DOMAIN log :
        log[i].ev = "login_post" => (~Falsy(log[i].csrf) /\ csrfObtained)
    /\ (Falsy(auth.csrf_token) /\ ret.call # "none") =>
            \A i \in DOMAIN log : log[i].ev # "login_post"

\* _perform_login called directly on a fresh instance fetched the token itself
C5_Witness ==
    /\ ret.call = "_perform_login"
    /\ authCalls = 1
    /\ Len(log) >= 2 /\ log[1].ev = "csrf_get" /\ log[2].ev = "login_post"
    /\ log[1].csrf = PyNone /\ log[2].csrf = "csrfA"

(***************************************************************************)
(* C6 as stated: the login outcome is decided by, in order, the 'invalid   *)
(* credentials' marker (failure), a redirect (success), dashboard/logout   *)
(* text (success), else the verification probe.  A response whose status   *)
(* is not 200 refutes it.                                                  *)
(***************************************************************************)
C6_ProbeSucceeded ==
    fallbackProbe.kind = "resp" /\ fallbackProbe.status = 200
        /\ fallbackProbe.body = "list"

C6_Rules ==
    IF loginResp.invalid THEN FALSE
    ELSE IF loginResp.redirected THEN TRUE
    ELSE IF loginResp.marker THEN TRUE
    ELSE C6_ProbeSucceeded

C6_Original ==
    (LoginStepDone /\ loginResp.kind = "resp") => (LoginStepSucceeded <=> C6_Rules)

(***************************************************************************)
(* C6 amended: for a login response with status 200 the outcome is decided *)
(* by the four checks in that order, the probe being issued only when the  *)
(* first three do not apply; a response with any other status, or a        *)
(* transport error, is a failure and no probe is issued.                   *)
(***************************************************************************)
C6_DecisionOrder ==
    (LoginStepDone /\ loginResp.kind # "none") =>
        IF loginResp.kind = "resp" /\ loginResp.status = 200
        THEN /\ LoginStepSucceeded <=> C6_Rules
             /\ fallbackProbe.kind # "none" <=>
                    (~loginResp.invalid /\ ~loginResp.redirected /\ ~loginResp.marker)
        ELSE ~LoginStepSucceeded /\ fallbackProbe.kind = "none"

\* a redirected response that also carries the marker is a failure
C6_Witness ==
    /\ ret.call = "_perform_login" /\ ret.val = "False"
    /\ loginResp.kind = "resp" /\ loginResp.status = 200
    /\ loginResp.invalid /\ loginResp.redirected /\ loginResp.marker

(***************************************************************************)
(* C7: a login response containing 'Invalid email or password' makes       *)
(* authenticate() return absent, whatever its status, URL, other markers   *)
(* and the cookie jar.                                                     *)
(***************************************************************************)
C7_InvalidCredentials ==
    (InAuthenticate /\ loginResp.kind = "resp" /\ loginResp.invalid) =>
        /\ pc \in {"login", "idle"}
        /\ pc = "idle" => ret.val = PyNone

\* redirected, with dashboard text and a sessionid cookie in the jar
C7_Witness ==
    /\ AuthenticateReturned /\ ret.val = PyNone
    /\ loginResp.kind = "resp" /\ loginResp.status = 200 /\ loginResp.invalid
    /\ loginResp.redirected /\ loginResp.marker
    /\ auth.jar = "sessA"

(***************************************************************************)
(* C8: when the jar holds no 'sessionid' cookie after the login step,      *)
(* authenticate() returns absent, even though the login step succeeded.    *)
(***************************************************************************)
C8_Extracted == \E i \in DOMAIN log : log[i].ev = "extract"

C8_NoSessionCookie ==
    (InAuthenticate /\ C8_Extracted /\ jarAtExtract = Absent) =>
        /\ pc = "idle" /\ ret.val = PyNone
        /\ finalProbe.kind = "none"
        /\ log[Len(log)].ev = "extract"

\* the login step succeeded by the fallback probe, and no cookie was set
C8_Witness ==
    /\ AuthenticateReturned /\ ret.val = PyNone
    /\ passed = <<"csrf", "login">>
    /\ Evs(log) = <<"csrf_get", "login_post", "probe", "extract">>
    /\ jarAtExtract = Absent

(***************************************************************************)
(* C9: authenticate() returns a token only if the final probe, issued      *)
(* after the extraction, got HTTP 200 with a non-empty JSON list; after    *)
(* any other outcome of that probe it returns absent.                      *)
(***************************************************************************)
C9_IsToken(v) == v \notin {PyNone, Raised, Pending}

C9_FinalProbeOk ==
    finalProbe.kind = "resp" /\ finalProbe.status = 200 /\ finalProbe.body = "list"

C9_VerifiedToken ==
    AuthenticateReturned =>
        /\ C9_IsToken(ret.val) =>
            /\ C9_FinalProbeOk
            /\ Len(log) >= 2
            /\ log[Len(log)].ev = "probe" /\ log[Len(log) - 1].ev = "extract"
            /\ ret.val = jarAtExtract
        /\ (finalProbe.kind # "none" /\ ~C9_FinalProbeOk) => ret.val = PyNone

\* the final probe was answered 200 with an empty list
C9_Witness ==
    /\ AuthenticateReturned /\ ret.val = PyNone
    /\ finalProbe.kind = "resp" /\ finalProbe.status = 200
    /\ finalProbe.body = "empty_list"
    /\ auth.session_id = "sessA"

(***************************************************************************)
(* C10: authenticate() never raises: it returns a token or absent.         *)
(***************************************************************************)
C10_NeverRaises ==
    AuthenticateReturned => ret.val # Raised

(***************************************************************************)
(* C2: load_session_from_file on a well-formed file returns absent when    *)
(* now - timestamp is strictly greater than 14 days (1,209,600 s) and the  *)
(* stored session_id when the age is at most 14 days, the boundary         *)
(* included.                                                               *)
(***************************************************************************)
C2_WellFormed(f) == f.kind = "object" /\ f.ts_kind = "int" /\ f.session_id # PyNone

C2_MaxAge ==
    (lastLoad.done /\ C2_WellFormed(lastLoad.file)) =>
        IF lastLoad.now - lastLoad.file.timestamp > 1209600
        THEN lastLoad.val = PyNone
        ELSE lastLoad.val = lastLoad.file.session_id

\* a session exactly 14 days old is returned
C2_Witness ==
    /\ lastLoad.done /\ C2_WellFormed(lastLoad.file)
    /\ lastLoad.now - lastLoad.file.timestamp = 1209600
    /\ lastLoad.val = "sessOld"

(***************************************************************************)
(* C3 as stated: get_fff_session without force_new consults the store      *)
(* before any login request; on a hit within the age limit it returns the  *)
(* cached token without any login request; on a miss or expiry it runs the *)
(* full authentication, and whenever that succeeds the new token is in the *)
(* store, in place of the old one, when the function returns.  A failing   *)
(* write of the cache file refutes the last part.                          *)
(***************************************************************************)
C3_Hit ==
    /\ C2_WellFormed(gfs.storeAtLoad)
    /\ gfs.nowAtLoad - gfs.storeAtLoad.timestamp <= 1209600
    /\ gfs.storeAtLoad.session_id # ""

C3_AuthSucceeded == gfs.authenticated \notin {Pending, Raised, PyNone, ""}

C3_Stored ==
    /\ file.kind = "object" /\ file.session_id = gfs.authenticated
    /\ file.email = gfs.email /\ file.ts_kind = "int"
    /\ file.timestamp = gfs.nowAtLoad

C3_StoreFirst ==
    (gfs.called /\ ~gfs.force_new) =>
        /\ gfs.pc = "load" => (gfs.trace = <<>> /\ gfs.wire = <<>>)
        /\ gfs.pc # "load" => (gfs.trace # <<>> /\ gfs.trace[1] = "load")
        /\ (gfs.pc # "load" /\ C3_Hit) =>
            /\ gfs.pc = "idle" /\ gfs.trace = <<"load">> /\ gfs.wire = <<>>
            /\ gfs.val = gfs.storeAtLoad.session_id
        /\ (gfs.pc = "idle" /\ ~C3_Hit) =>
            /\ Len(gfs.trace) >= 2 /\ gfs.trace[2] = "authenticate"
            /\ gfs.wire # <<>> /\ gfs.wire[1] = "csrf_get"

C3_Original ==
    /\ C3_StoreFirst
    /\ (gfs.called /\ ~gfs.force_new /\ gfs.pc = "idle" /\ C3_AuthSucceeded) =>
            (C3_Stored /\ gfs.val = gfs.authenticated)

(***************************************************************************)
(* C3 amended: as stated, except that after a successful authentication    *)
(* save_session_to_file is called with the new token before the function   *)
(* returns, and the store holds the new token in place of the old one      *)
(* unless that write fails; the new token is returned either way, and      *)
(* nothing is saved when authenticate() returns no session id.             *)
(***************************************************************************)
C3_StoreThenLogin ==
    /\ C3_StoreFirst
    /\ (gfs.called /\ ~gfs.force_new /\ gfs.pc = "idle" /\ ~C3_Hit) =>
            IF C3_AuthSucceeded
            THEN /\ gfs.trace = <<"load", "authenticate", "save">>
                 /\ gfs.val = gfs.authenticated
                 /\ gfs.saved \in {"True", "False"}
                 /\ gfs.saved = "True" => C3_Stored
            ELSE /\ gfs.trace = <<"load", "authenticate">>
                 /\ gfs.saved = "none"

\* an expired entry was found, the login succeeded and the entry was replaced
C3_Witness ==
    /\ gfs.called /\ ~gfs.force_new /\ gfs.pc = "idle"
    /\ gfs.storeAtLoad.session_id = "sessOld"
    /\ C2_WellFormed(gfs.storeAtLoad)
    /\ gfs.nowAtLoad - gfs.storeAtLoad.timestamp > 1209600
    /\ gfs.val = "sessA" /\ gfs.saved = "True"
    /\ file.session_id = "sessA" /\ file.timestamp = gfs.nowAtLoad
(***************************************************************************)
(* C11: a stats request that reaches the network is accepted (the data is  *)
(* returned and successful_requests grows by one) exactly when the         *)
(* response is a JSON array; every other outcome returns absent without    *)
(* raising and adds one to failed_requests.  As stated this fails for the  *)
(* empty array; the amended statement requires a non-empty array.          *)
(***************************************************************************)
C11_Requested == statsCalls' # statsCalls /\ lastCall'.validated

C11_Accepted ==
    /\ lastCall'.outcome = "list"
    /\ stats'.successful_requests = stats.successful_requests + 1
    /\ stats'.failed_requests = stats.failed_requests

C11_Failed ==
    /\ lastCall'.outcome = "absent"
    /\ stats'.successful_requests = stats.successful_requests
    /\ stats'.failed_requests = stats.failed_requests + 1

C11_Original ==
    [][C11_Requested =>
        IF lastCall'.res.kind = "list" THEN C11_Accepted ELSE C11_Failed]_vars

C11_NonEmptyArray ==
    [][C11_Requested =>
        /\ stats'.requests_made = stats.requests_made + 1
        /\ IF lastCall'.res.kind = "list" /\ lastCall'.res.len > 0
           THEN C11_Accepted ELSE C11_Failed]_vars

\* an empty JSON array came back and was counted as a failed request
C11_Witness ==
    /\ lastCall.validated
    /\ lastCall.res = [kind |-> "list", len |-> 0]
    /\ lastCall.outcome = "absent"
    /\ stats.failed_requests = 1 /\ stats.successful_requests = 0
(***************************************************************************)
(* Observations shared by the claims about _process_player_data            *)
(***************************************************************************)
\* positions of the batch whose record was normalized
Normalized == {i \in 1..Len(lastProcess.stats) : lastProcess.results[i].status = "ok"}
RawStats(i) == lastProcess.stats[i].stats.f
RecordOf(i) == lastProcess.results[i].record
\* the column whitelist in force during the call
Whitelist == IF lastProcess.columns = {} THEN DefaultOrder ELSE lastProcess.columns
\* a raw stats key that the whitelist lets through
Retained(i, k) == RawStats(i)[k] # AbsentKey /\ k \in Whitelist
\* a raw metric in hundredths, a missing or null one counting as 0
Metric(i, k) ==
    IF RawStats(i)[k] \in {AbsentKey, NoneV} THEN 0 ELSE Hundredths(RawStats(i)[k])
\* how a value is rendered in a normalized record
Rendered(v) ==
    IF v \in {IntV(0), FloatV(0), StrV("0"), StrV("0.0")} THEN Empty ELSE v
ItemKey(item) == <<item.player.f.known_name, item.player.f.team_short_name>>

(***************************************************************************)
(* C13: a raw player record whose player sub-object lacks code,            *)
(* known_name, team_short_name, position_name or price adds no entry to    *)
(* the returned mapping and raises errors_encountered by exactly one.      *)
(***************************************************************************)
C13_Lacking(item) ==
    /\ item.player.kind \in {"dict", "absent"}
    /\ \E k \in required_fields : item.player.f[k] = AbsentKey

C13_MissingFieldCounted ==
    [][(lastProcess'.called /\ ~lastProcess.called
            /\ Len(lastProcess'.stats) = 1
            /\ C13_Lacking(lastProcess'.stats[1])) =>
        /\ DOMAIN lastProcess'.data = {}
        /\ processing_stats'.errors_encountered =
                processing_stats.errors_encountered + 1]_vars

(***************************************************************************)
(* C14: a record that fails normalization (missing required field or an    *)
(* exception) affects only itself: the returned mapping holds exactly the  *)
(* keys of the well-formed records of the batch, each with the record of   *)
(* the last well-formed item of that key, and the call returns.            *)
(***************************************************************************)
C14_WellFormed(item) ==
    /\ item.player.kind = "dict"
    /\ \A k \in required_fields : item.player.f[k] # AbsentKey
    /\ item.stats.kind # "null"
    /\ item.stats.f.exp_goals.t # "str"

C14_FailureIsolated ==
    lastProcess.called =>
        LET batch == lastProcess.stats
            wf == {i \in 1..Len(batch) : C14_WellFormed(batch[i])}
        IN  /\ wf = Normalized
            /\ DOMAIN lastProcess.data = {ItemKey(batch[i]) : i \in wf}
            /\ \A i \in wf :
                    (\A j \in wf : j > i => ItemKey(batch[j]) # ItemKey(batch[i]))
                        => lastProcess.data[ItemKey(batch[i])] = RecordOf(i)
            /\ processing_stats.players_processed = Cardinality(wf)

\* a well-formed record followed by one that raises
C14_Witness ==
    /\ lastProcess.called
    /\ Len(lastProcess.stats) = 2
    /\ lastProcess.results[1].status = "ok"
    /\ lastProcess.results[2].status = "error"
    /\ DOMAIN lastProcess.data = {ItemKey(lastProcess.stats[1])}
    /\ processing_stats.errors_encountered = 1

(***************************************************************************)
(* C15: in every normalized record exp_goals_involvement is absent when    *)
(* exp_goals_team is 0 and otherwise round((exp_goals + exp_assists) /     *)
(* exp_goals_team * 100, 2); no input makes the division fail.  As stated  *)
(* this fails where that value is 0 (rendered as '') and where a retained  *)
(* stats key of the same name replaces the field; the amended statement    *)
(* says so.                                                                *)
(***************************************************************************)
\* v (hundredths) is a / b rounded to the nearest integer
C15_Nearest(v, a, b) ==
    LET d == v * b - a
    IN  2 * (IF d < 0 THEN -d ELSE d) <= (IF b < 0 THEN -b ELSE b)

C15_Formula(i, field) ==
    /\ field.t = "float"
    /\ C15_Nearest(field.n,
                   (Metric(i, "exp_goals") + Metric(i, "exp_assists")) * 10000,
                   Metric(i, "exp_goals_team"))

C16_Sum(i, field) ==
    /\ field.t \in {"int", "float"}
    /\ Hundredths(field) = Metric(i, "exp_goals") + Metric(i, "exp_assists")

C16_Original == \A i \in Normalized : C16_Sum(i, RecordOf(i)["expGA"])

C16_ExpGA ==
    \A i \in Normalized :
        LET field == RecordOf(i)["expGA"]
        IN  IF Retained(i, "expGA") THEN field = Rendered(RawStats(i)["expGA"])
            ELSE IF Metric(i, "exp_goals") + Metric(i, "exp_assists") = 0
                 THEN field = Empty
            ELSE C16_Sum(i, field)

\* exp_goals 0.4 with exp_assists missing gives 0.4
C16_Witness ==
    /\ lastProcess.called /\ Normalized = {1}
    /\ RawStats(1)["exp_goals"] = FloatV(40)
    /\ RawStats(1)["exp_assists"] = AbsentKey
    /\ RawStats(1)["expGA"] = AbsentKey
    /\ RecordOf(1)["expGA"] = FloatV(40)

(***************************************************************************)
(* C17: after the zero-to-empty step every field that was numerically zero *)
(* (0, 0.0, "0") is '', every non-zero number is unchanged and every       *)
(* non-numeric value is left as it is; both for format_null_data called on *)
(* its own and as the last step of validate_player_data.                   *)
(***************************************************************************)
C17_NumericallyZero(v) == v \in {IntV(0), FloatV(0), StrV("0"), StrV("0.0")}

C17_Step(before, after) ==
    /\ DOMAIN after = DOMAIN before
    /\ \A k \in DOMAIN before :
            IF C17_NumericallyZero(before[k]) THEN after[k] = Empty
            ELSE after[k] = before[k]

C18_Idempotent ==
    /\ nullCall.called => format_null_data(nullCall.out) = nullCall.out
    /\ \A i \in Normalized : format_null_data(RecordOf(i)) = RecordOf(i)

\* a record that the first application changed
C18_Witness ==
    /\ nullCall.called
    /\ nullCall.out # nullCall.data
    /\ nullCall.out["goals"] = Empty /\ nullCall.data["price"] = NoneV

(***************************************************************************)
(* C19: format_position sends exactly the four labels Goalkeeper,          *)
(* Defender, Midfielder, Forward to GK, D, M, F and returns every other    *)
(* string verbatim.  As stated this fails for other spellings of the four  *)
(* labels; the amended statement compares without regard to case and       *)
(* surrounding white space.                                                *)
(***************************************************************************)
C19_Code(label) ==
    CASE label = "Goalkeeper" -> "GK"
      [] label = "Defender" -> "D"
      [] label = "Midfielder" -> "M"
      [] label = "Forward" -> "F"

C19_Labels == {"Goalkeeper", "Defender", "Midfielder", "Forward"}

\* the label that x spells, if any
C19_Spells(x, label) ==
    \/ x = label
    \/ label = "Forward" /\ x \in {"forward", "FORWARD", " Forward "}

C19_Original ==
    (posCall.called /\ posCall.position_id.t = "str") =>
        IF posCall.position_id.s \in C19_Labels
        THEN posCall.out = StrV(C19_Code(posCall.position_id.s))
        ELSE posCall.out = posCall.position_id

C19_PositionMapping ==
    (posCall.called /\ posCall.position_id.t = "str") =>
        IF \E label \in C19_Labels : C19_Spells(posCall.position_id.s, label)
        THEN \E label \in C19_Labels :
                /\ C19_Spells(posCall.position_id.s, label)
                /\ posCall.out = StrV(C19_Code(label))
        ELSE posCall.out = posCall.position_id

\* 'forward' is mapped to F
C19_Witness ==
    /\ posCall.called
    /\ posCall.position_id = StrV("forward")
    /\ posCall.out = StrV("F")

(***************************************************************************)
(* C20: in a normalized record a key taken from the raw stats sub-object   *)
(* is present only if the column whitelist holds it; every other stats key *)
(* is dropped.  As stated this fails for game_started, which is copied     *)
(* from the raw stats whatever the whitelist says.                         *)
(***************************************************************************)
\* the record's entry k carries the value of the raw stats key k
C20_TakenFromStats(i, k) ==
    /\ RawStats(i)[k] # AbsentKey
    /\ k \in DOMAIN lastProcess.results[i].assembled
    /\ lastProcess.results[i].assembled[k] = RawStats(i)[k]

C20_FixedFields ==
    {"known_name", "playerId", "abbr", "position", "price", "expGA",
     "exp_goals_involvement", "gw", "venue", "game_started"}

C20_Original ==
    \A i \in Normalized : \A k \in StatsKeys :
        C20_TakenFromStats(i, k) => k \in Whitelist

C20_WhitelistOnly ==
    \A i \in Normalized :
        /\ \A k \in StatsKeys \ {"game_started"} :
                C20_TakenFromStats(i, k) => k \in Whitelist
        /\ DOMAIN RecordOf(i) =
                C20_FixedFields \cup {k \in StatsKeys : Retained(i, k)}
        /\ RawStats(i)["game_started"] # AbsentKey =>
                C20_TakenFromStats(i, "game_started")

\* shots is dropped, goals is kept
C20_Witness ==
    /\ lastProcess.called /\ Normalized = {1}
    /\ RawStats(1)["shots"] = IntV(3) /\ "shots" \notin DOMAIN RecordOf(1)
    /\ RawStats(1)["goals"] = IntV(2) /\ RecordOf(1)["goals"] = IntV(2)
(***************************************************************************)
(* C12: in the season scan a gameweek/venue request that returns absent    *)
(* does not stop the scan: the requests made are always the first ones of  *)
(* the schedule gameweek 1..38 in ascending order (home before away when   *)
(* both venues are scanned), an absent answer before the last request      *)
(* leaves the scan running, and a scan that ends without an interrupt has  *)
(* made every request of the schedule.                                     *)
(***************************************************************************)
C12_Schedule(venue) ==
    IF venue = "home/away"
    THEN [i \in 1..(2 * 38) |->
            <<(i + 1) \div 2, IF i % 2 = 1 THEN "home" ELSE "away">>]
    ELSE [i \in 1..38 |-> <<i, venue>>]

C12_ScanContinues ==
    [][scan'.pc # "idle" =>
        LET schedule == C12_Schedule(scan'.venue)
        IN  /\ IsPrefix(requested', schedule)
            /\ (requested' # requested /\ lastCall'.outcome = "absent"
                    /\ Len(requested') < Len(schedule)) => scan'.pc # "done"
            /\ (scan'.pc = "done" /\ ~scan'.interrupted) =>
                    requested' = schedule]_vars

\* a finished scan of both venues in which requests failed and succeeded
C12_Witness ==
    /\ scan.pc = "done" /\ ~scan.interrupted /\ scan.venue = "home/away"
    /\ Len(requested) = 76
    /\ stats.failed_requests > 0
    /\ scan.success_count > 0

(***************************************************************************)
(* C21: the record with player {code 1, known_name 'A. Smith',             *)
(* team_short_name 'ARS', position_name 'Forward', price 8.5} and stats    *)
(* {exp_goals 0.4, exp_assists 0.1, exp_goals_team 1.0, game_started 1},   *)
(* normalized with gw=1 and venue='home', yields known_name='A. Smith',    *)
(* position='F', expGA=0.5, exp_goals_involvement=50.0, gw=1,              *)
(* venue='home'.  As stated this fails for known_name, which comes out as  *)
(* 'A Smith'; the amended statement says so.                               *)
(***************************************************************************)
C21_Raw ==
    [player |-> [kind |-> "dict",
                 f |-> [code |-> IntV(1), known_name |-> StrV("A. Smith"),
                        team_short_name |-> StrV("ARS"),
                        position_name |-> StrV("Forward"),
                        price |-> FloatV(850)]],
     stats |-> [kind |-> "dict",
                f |-> [exp_goals |-> FloatV(40), exp_assists |-> FloatV(10),
                       exp_goals_team |-> FloatV(100),
                       game_started |-> IntV(1), goals |-> AbsentKey,
                       shots |-> AbsentKey, expGA |-> AbsentKey,
                       exp_goals_involvement |-> AbsentKey]]]

C21_Called ==
    /\ lastProcess.called
    /\ lastProcess.stats = <<C21_Raw>>
    /\ lastProcess.min_gw = IntV(1) /\ lastProcess.venue = StrV("home")

C21_Yields(known_name) ==
    /\ Normalized = {1}
    /\ RecordOf(1)["known_name"] = StrV(known_name)
    /\ RecordOf(1)["position"] = StrV("F")
    /\ RecordOf(1)["expGA"] = FloatV(50)
    /\ RecordOf(1)["exp_goals_involvement"] = FloatV(5000)
    /\ RecordOf(1)["gw"] = IntV(1)
    /\ RecordOf(1)["venue"] = StrV("home")

C21_Original == C21_Called => C21_Yields("A. Smith")

C21_Example == C21_Called => C21_Yields("A Smith")

\* the example has been normalized, under the fallback column order
C21_Witness ==
    /\ C21_Called /\ lastProcess.columns = {}
    /\ RecordOf(1)["known_name"] = StrV("A Smith")
    /\ RecordOf(1)["exp_goals_involvement"] = FloatV(5000)

(***************************************************************************)
(* C22: records of successive calls are merged into one mapping keyed by   *)
(* identity, last write winning: two raw records sharing (known_name,      *)
(* abbr) produced by the calls for gw=1 and gw=2 end as one entry holding  *)
(* the gw=2 values.  As stated this fails: every call hands its own        *)
(* mapping to the writer and nothing is merged across calls, so the two    *)
(* records end as two rows; the amended statement says so.                 *)
(***************************************************************************)
\* the calls for gw=1 and gw=2 of a single-venue scan both produced data
C22_TwoCalls ==
    /\ scan.venue = "home" /\ Len(requested) = 2 /\ scan.success_count = 2

C22_Original == C22_TwoCalls => scan.rows = 1

\* what the latest call, if it returned, handed to the writer
C22_OwnMapping ==
    LET call == requested'[Len(requested')]
        key == <<StrV("A. Smith"), StrV("ARS")>>
    IN  IF lastCall'.outcome = "list"
        THEN /\ DOMAIN scan'.handed = {key}
             /\ scan'.handed[key]["gw"] = IntV(call[1])
             /\ scan'.handed[key]["venue"] = StrV(call[2])
             /\ scan'.rows = scan.rows + 1
        ELSE /\ DOMAIN scan'.handed = {}
             /\ scan'.rows = scan.rows

C22_PerCall ==
    [][/\ (requested' # requested /\ lastCall'.outcome # "interrupted") =>
            C22_OwnMapping
       /\ C22_TwoCalls' => scan'.rows = 2]_vars

\* both calls have written their row
C22_Witness ==
    /\ C22_TwoCalls /\ scan.rows = 2
    /\ scan.handed[<<StrV("A. Smith"), StrV("ARS")>>]["gw"] = IntV(2)

(***************************************************************************)
(* C23: teamsInfo yields a mapping keyed by the team short_name only; each *)
(* record holds exactly the whitelisted stats keys plus short_name, which  *)
(* equals the team's identity and is never overridden by a stats key; it   *)
(* has no derived expected-goals field; its zero values are ''; on a key   *)
(* collision the last record is kept.                                      *)
(***************************************************************************)
C23_Teams ==
    teamsCall.called =>
        LET batch == teamsCall.stats
            last(i) == \A j \in 1..Len(batch) : j > i => batch[j].team # batch[i].team
        IN  /\ DOMAIN teamsCall.data = {batch[i].team : i \in 1..Len(batch)}
            /\ \A i \in 1..Len(batch) : last(i) =>
                LET rec == teamsCall.data[batch[i].team]
                    raw == batch[i].stats
                IN  /\ DOMAIN rec = {"short_name"} \cup
                            {k \in DOMAIN raw :
                                raw[k] # AbsentKey /\ k \in teamsCall.ORDER}
                    /\ rec["short_name"] = StrV(batch[i].team)
                    /\ {"expGA", "exp_goals_involvement"} \cap DOMAIN rec = {}
                    /\ \A k \in DOMAIN rec \ {"short_name"} :
                            rec[k] = IF raw[k] = IntV(0) THEN Empty ELSE raw[k]

\* two records of one team, the first with goals, the second with none and
\* with a stats key named short_name
C23_Witness ==
    /\ teamsCall.called /\ Len(teamsCall.stats) = 2
    /\ teamsCall.stats[1].team = "ARS" /\ teamsCall.stats[2].team = "ARS"
    /\ teamsCall.stats[1].stats["goals"] = IntV(2)
    /\ teamsCall.stats[2].stats["goals"] = IntV(0)
    /\ teamsCall.stats[2].stats["short_name"] = StrV("XXX")
    /\ "short_name" \in teamsCall.ORDER
    /\ teamsCall.data["ARS"]["goals"] = Empty
    /\ teamsCall.data["ARS"]["short_name"] = StrV("ARS")

(***************************************************************************)
(* C24: save_session_to_file replaces whatever the cache held with         *)
(* {session_id, timestamp = now, email}; a failure is reported as a false  *)
(* result; a load made within 14 days of a successful save returns exactly *)
(* the saved session_id.                                                   *)
(***************************************************************************)
C24_Overwrites ==
    (lastSave.done /\ lastSave.ok) =>
        lastSave.after = [kind |-> "object", session_id |-> lastSave.session_id,
                          ts_kind |-> "int", timestamp |-> lastSave.now,
                          email |-> lastSave.email]
C24_FailureIsFalse ==
    lastSave.done =>
        /\ lastSave.ok \in BOOLEAN
        /\ lastSave.session_id \in {PyNone, ""} =>
                ~lastSave.ok /\ lastSave.after = lastSave.before
\* a load of the file a successful save left
C24_LoadAfterSave ==
    /\ lastSave.done /\ lastSave.ok
    /\ lastLoad.done /\ lastLoad.file = lastSave.after
    /\ lastLoad.now >= lastSave.now
C24_RoundTrip ==
    (C24_LoadAfterSave /\ lastLoad.now - lastSave.now <= 14 * 24 * 60 * 60) =>
        lastLoad.val = lastSave.session_id
C24_SaveLoad == C24_Overwrites /\ C24_FailureIsFalse /\ C24_RoundTrip

\* a session saved over an older object and loaded exactly 14 days later
C24_Witness ==
    /\ C24_LoadAfterSave
    /\ lastSave.before.kind = "object" /\ lastSave.before.session_id = "sessOld"
    /\ lastLoad.now - lastSave.now = 14 * 24 * 60 * 60
    /\ lastLoad.val = lastSave.session_id



(***************************************************************************)
(* C25: load_session_from_file returns absent, and does not raise, when    *)
(* the cache file is missing, empty or malformed (not a JSON object, a     *)
(* timestamp that is not a number or is missing); a well-formed file with  *)
(* no timestamp counts as expired.                                         *)
(***************************************************************************)
C25_Unusable(f) == f.kind # "object" \/ f.ts_kind # "int"
C25_AbsentOnBadFile ==
    lastLoad.done =>
        /\ lastLoad.val # Raised
        /\ C25_Unusable(lastLoad.file) => lastLoad.val = PyNone

\* a file holding a session id and no timestamp has been loaded
C25_Witness ==
    /\ lastLoad.done
    /\ lastLoad.file.kind = "object" /\ lastLoad.file.ts_kind = "missing"
    /\ lastLoad.file.session_id = "sessOld"
    /\ lastLoad.val = PyNone

(***************************************************************************)
(* C26: when authentication fails, run() returns false without removing or *)
(* changing a result file and without any parse_gameweek_range request;    *)
(* the only statistics requests made are the gameweek-1 test requests of   *)
(* authentication itself; result files are cleared only after             *)
(* authentication has succeeded.                                           *)
(***************************************************************************)
C26_AuthFails == run.pc = "auth" /\ run'.pc = "done"
C26_AuthFailure ==
    [][/\ C26_AuthFails =>
            /\ ~run'.val /\ run'.exit = 1
            /\ scan' = scan /\ requested' = requested /\ requested = <<>>
            /\ processing_stats' = processing_stats
            /\ net' = run'.probes /\ run'.probes = IF run.session_id THEN 1 ELSE 0
       /\ run'.cleared => run.authenticated]_vars

\* C26 as first stated: a failed authentication has issued no gameweek
\* statistics request at all
C26_Original ==
    (run.pc = "done" /\ ~run.authenticated) =>
        /\ ~run.val /\ ~run.cleared
        /\ net = 0 /\ run.probes = 0 /\ run.login_probes = 0

\* the configured session id was tested, the login was verified and failed,
\* and the two rows of the result file are still there
C26_Witness ==
    /\ run.pc = "done" /\ ~run.authenticated /\ run.exit = 1
    /\ run.probes = 1 /\ run.login_probes = 1 /\ net = 1
    /\ scan.rows = 2 /\ requested = <<>>


(***************************************************************************)
(* C27: an interrupt raised during the season scan stops the iteration:    *)
(* the step that raises it writes no row over the rows already there, and  *)
(* after it no request for a further gameweek or venue is issued and no    *)
(* further row is written.                                                 *)
(***************************************************************************)
C27_InterruptStops ==
    [][/\ scan.interrupted =>
            /\ requested' = requested /\ net' = net
            /\ scan'.rows = scan.rows
       /\ (~scan.interrupted /\ scan'.interrupted) =>
            /\ scan'.pc = "done"
            /\ scan'.rows >= scan.rows
            /\ Len(requested') <= Len(requested) + 1
            /\ \A i \in DOMAIN requested : requested'[i] = requested[i]]_vars

\* the scan was interrupted while the rows of the away leg of gameweek 2
\* were being written, after three rows of earlier legs
C27_Witness ==
    /\ scan.interrupted /\ scan.pc = "done"
    /\ scan.rows = 3 /\ scan.gw = 2
    /\ requested = <<<<1, "home">>, <<1, "away">>, <<2, "home">>, <<2, "away">>>>

(***************************************************************************)
(* C28: a full-season run (min_gw = 1, max_gw = 38) issues its statistics  *)
(* requests one after another: for venue 'home/away' one 'home' and then   *)
(* one 'away' request per gameweek 1..38, for a single venue one request   *)
(* per gameweek, at most 76 in the scan; the stats client sends one more,  *)
(* the test request of _authenticate, when a session id is configured:     *)
(* at most 77 in total.                                                    *)
(***************************************************************************)
C28_FullSeason == run.pc \in {"parse", "done"} /\ run.min_gw = 1 /\ run.max_gw = 38
\* the i-th request of the scan
C28_Expected(i) ==
    IF run.venue = "home/away"
    THEN <<(i + 1) \div 2, IF i % 2 = 1 THEN "home" ELSE "away">>
    ELSE <<i, run.venue>>
C28_Requests ==
    C28_FullSeason =>
        /\ Len(requested) <= (IF run.venue = "home/away" THEN 76 ELSE 38)
        /\ \A i \in DOMAIN requested : requested[i] = C28_Expected(i)
        /\ net = Len(requested) + run.probes
        /\ run.probes <= 1
        /\ (run.pc = "done" /\ run.authenticated) =>
                Len(requested) = (IF run.venue = "home/away" THEN 76 ELSE 38)

\* C28 as first stated: at most 76 requests in total
C28_Original == C28_FullSeason => net <= 76

\* a finished scan of both venues after a configured session id was tested
C28_Witness ==
    /\ C28_FullSeason /\ run.pc = "done" /\ run.venue = "home/away"
    /\ Len(requested) = 76 /\ requested[76] = <<38, "away">>
    /\ run.probes = 1 /\ net = 77


(***************************************************************************)
(* C29: the exit code is 0 whenever at least one gameweek/venue request    *)
(* was fetched, normalized and written, and 1 only after an authentication *)
(* failure, invalid arguments or a run in which no request produced data.  *)
(***************************************************************************)
C29_ExitCode ==
    (run.pc = "done") =>
        /\ run.exit \in {0, 1}
        /\ run.exit = 0 <=>
                run.authenticated /\ processing_stats.successful_requests > 0

C31_NeverRaises ==
    lastCall.op # "none" => lastCall.outcome \in {"list", "absent"}

(***************************************************************************)
(* C32: after any sequence of get_players_stats / get_teams_stats calls on *)
(* one client, requests_made = successful_requests + failed_requests, each *)
(* validated call increases requests_made by exactly one, no counter ever  *)
(* decreases, and success_rate_percent is 0 when no request was made and   *)
(* otherwise lies between 0 and 100.                                       *)
(***************************************************************************)
C32_Balanced(st) ==
    st.requests_made = st.successful_requests + st.failed_requests

C32_RateInRange(st) ==
    LET rate == get_stats_summary(st).success_rate_percent
    IN  /\ st.requests_made = 0 => rate = 0
        /\ 0 <= rate /\ rate <= 10000

C32_Counters ==
    [][requested' # requested =>
        /\ C32_Balanced(stats')
        /\ lastCall'.validated => stats'.requests_made = stats.requests_made + 1
        /\ \A k \in DOMAIN stats : stats'[k] >= stats[k]
        /\ C32_RateInRange(stats')]_vars

(***************************************************************************)
(* C33: get_fff_session(email, ...) returns a cached token only if that    *)
(* token was saved for the same email: an entry written for one account is *)
(* never returned to a caller asking for another.                          *)
(***************************************************************************)
C33_FromCache ==
    /\ gfs.called /\ gfs.pc = "idle"
    /\ gfs.trace = <<"load">> /\ gfs.val = gfs.storeAtLoad.session_id

C33_SameOwner ==
    C33_FromCache => gfs.storeAtLoad.email = gfs.email


(***************************************************************************)
(* C34: whenever _authenticate returns true, the session id the stats      *)
(* client will use has passed a live API probe during this run, either the *)
(* test request of the configured session or the final verification of a   *)
(* fresh login; a session the server rejected is never accepted.  A saved  *)
(* session returned by get_fff_session refutes it.                         *)
(***************************************************************************)
C34_Original ==
    run.authenticated => run.verified

(***************************************************************************)
(* C34 amended: whenever _authenticate returns true, the session id either *)
(* passed a live probe during this run (the test request of the configured *)
(* session, or the final verification of a fresh login) or was handed out  *)
(* by get_fff_session from the saved-session file, which is not probed; a  *)
(* configured session whose test request brought no data is accepted only  *)
(* through get_fff_session, hence only with credentials.                   *)
(***************************************************************************)
C34_ProbedOrCached ==
    /\ run.authenticated =>
        /\ run.via \in {"configured", "login", "cache"}
        /\ run.via \in {"configured", "login"} => run.verified
        /\ run.via = "configured" => run.probes = 1
        /\ run.via \in {"login", "cache"} => run.credentials
    /\ (run.pc \notin {"idle", "auth"} /\ ~run.authenticated) =>
            run.via = "none" /\ run.pc = "done"

\* the configured session was rejected and a saved one taken without a probe
C34_Witness ==
    /\ run.authenticated /\ run.via = "cache" /\ ~run.verified
    /\ run.probes = 1 /\ run.cleared

(***************************************************************************)
(* C35: in every mapping returned by _process_player_data each entry's key *)
(* equals the identity stored in its record, key = (record.known_name,     *)
(* record.abbr), so that two records are merged exactly when their output  *)
(* identity fields are equal.                                              *)
(***************************************************************************)
C35_Identity(record) == <<record["known_name"], record["abbr"]>>

C35_KeyIsIdentity ==
    /\ \A key \in DOMAIN lastProcess.data :
            key = C35_Identity(lastProcess.data[key])
    /\ \A i, j \in Normalized :
            (lastProcess.results[i].key = lastProcess.results[j].key)
                <=> (C35_Identity(RecordOf(i)) = C35_Identity(RecordOf(j)))

(***************************************************************************)
(* C36: in a normalized player record the identity and derived fields      *)
(* (known_name, abbr, position, price, expGA, exp_goals_involvement, gw,   *)
(* venue, game_started) are always the values computed from the player     *)
(* sub-object and the call arguments; a key of the same name in the raw    *)
(* stats sub-object, even when whitelisted, never overrides them.          *)
(***************************************************************************)
C36_Fields ==
    {"known_name", "abbr", "position", "price", "expGA",
     "exp_goals_involvement", "gw", "venue", "game_started"}

\* the record of item i as it comes out when the whitelist lets none of
\* these fields through (the fallback order)
C36_Computed(i) ==
    process_item(lastProcess.stats[i], lastProcess.min_gw, lastProcess.venue,
                 {}).record

C36_NoOverride ==
    \A i \in Normalized : \A k \in C36_Fields :
        RecordOf(i)[k] = C36_Computed(i)[k]

(***************************************************************************)
(* C37: a failed authentication in get_fff_session leaves the persisted    *)
(* session cache unchanged: the cache file is written only after           *)
(* authenticate() returned a token, so the entry it holds is at every      *)
(* moment either the previous entry or a token that passed verification    *)
(* (a write that fails may leave the previous entry or no readable entry). *)
(***************************************************************************)
C37_FailedAuth ==
    gfs.pc = "auth" /\ gfs'.pc = "idle"

C37_Verified ==
    /\ C3_AuthSucceeded
    /\ gfs.wire # <<>> /\ gfs.wire[Len(gfs.wire)] = "probe"
    /\ gfs.auth.session_id = gfs.authenticated

C37_CacheUnchanged ==
    [][/\ C37_FailedAuth =>
            /\ gfs'.authenticated \in {PyNone, Raised, ""}
            /\ file' = file
            /\ gfs'.saved = "none" /\ gfs'.val = gfs'.authenticated
       /\ (gfs.called /\ file' # file) =>
            /\ gfs.pc = "save" /\ C37_Verified
            /\ file'.kind = "object" =>
                /\ file'.session_id = gfs.authenticated
                /\ file'.email = gfs.email]_vars

\* the login got a session cookie but the final probe was rejected: the
\* expired entry is still in the file
C37_Witness ==
    /\ gfs.called /\ gfs.pc = "idle"
    /\ gfs.trace = <<"load", "authenticate">>
    /\ gfs.authenticated = PyNone /\ gfs.auth.session_id = "sessA"
    /\ file = gfs.storeAtLoad /\ file.session_id = "sessOld"
    /\ gfs.saved = "none"

(***************************************************************************)
(* An authenticate() whose requests are all answered (with a response or   *)
(* an error) and which is never left half-way: each of its steps is taken  *)
(* once it is enabled.                                                     *)
(***************************************************************************)
SpecAuthLive == SpecAuth /\ WF_vars(NextAuth)

(***************************************************************************)
(* C38: every authenticate() attempt terminates after a bounded number of  *)
(* requests: at most one GET of the CSRF page, at most one login POST and  *)
(* at most two verification probes (the fallback one and the final one);   *)
(* no stage is retried or re-entered.                                      *)
(***************************************************************************)
C38_Count(ev) == Cardinality({i \in DOMAIN log : log[i].ev = ev})

C38_Bounded ==
    InAuthenticate =>
        /\ C38_Count("csrf_get") <= 1
        /\ C38_Count("login_post") <= 1
        /\ C38_Count("probe") <= 2
        /\ C38_Count("probe") = 2 => fallbackProbe.kind # "none"
        /\ Len(log) <= 5

C38_BoundedRequests ==
    /\ [](C38_Bounded)
    /\ [][pc' # pc => (pc' = "idle" \/ Rank(pc') > Rank(pc))]_vars
    /\ [][pc # "idle" => IsPrefix(log, log')]_vars
    /\ (pc # "idle") ~> (pc = "idle")

\* an attempt that sent all five requests it can send and returned a token
C38_Witness ==
    /\ AuthenticateReturned /\ ret.val = "sessA"
    /\ C38_Count("csrf_get") = 1 /\ C38_Count("login_post") = 1
    /\ C38_Count("probe") = 2
    /\ authCalls = 2

====
